---------------------------- MODULE Spec2Model ----------------------------
(***************************************************************************)
(* A model of the Fortran binding generator (Source/Modules/fortran.cxx).  *)
(*                                                                         *)
(* Strings are sequences of character codes (ASCII), so that the           *)
(* character tests, the case folding and the rolling hash are computed as  *)
(* the C++ code computes them.  A DOH String is the sequence of its Len    *)
(* characters.                                                             *)
(***************************************************************************)
EXTENDS Integers, Sequences, FiniteSets, TLC

VARIABLES
  phase,        \* which part of the generator the behaviour exercises
  ndebug,       \* build configuration: TRUE when assert() is compiled out
  m_in,         \* make_fname: the raw name handed to the synthesizer
  m_out,        \* make_fname: the result of the first call
  m_out2,       \* make_fname: the result of the call on the first result
  m_pc,         \* make_fname: "input", "once", "twice" or "aborted"
  assert_failed, \* an assert() evaluated to false, or the process died
  symtab,       \* the "fortran" symbol scope: case-folded name -> owning node
  sym_name,     \* the "sym:name" attribute of the declaration nodes
  r_hist,       \* the calls made on the symbol registry, in order
  f_wrapper,      \* output section: C wrapper code
  f_finterfaces,  \* output section: Fortran interface declarations
  f_fsubprograms, \* output section: Fortran proxy subprograms
  f_fdecl,        \* output section: module declaration constructs
  d_overloads,    \* module-wide generic name -> procedure names
  w_hist,         \* the operations functionWrapper has visited, in order
  cplusplus,      \* CPlusPlus: the input is processed as C++
  cur_class,      \* getCurrentClass(): <<>> or <<the class being wrapped>>
  f_class,        \* <<>> (NULL) or <<the text of the type being written>>
  f_policies,     \* output section: ownership policy macros
  d_method_overloads, \* <<>> (NULL) or <<generic name -> procedure names>>
  d_constructors, \* <<>> (NULL) or <<the list of constructor procedures>>
  c_hist,         \* the classes classHandler has visited, in order
  rel_handles,    \* generated code at run time: handle -> its swigdata
  rel_next,       \* generated code at run time: the next object to construct
  rel_hist,       \* generated code at run time: the calls of release, in order
  e_hist,         \* the enumerations enumDeclaration has visited, in order
  d_mangled_type, \* base type -> the name of its opaque binding
  t_hist,         \* the calls of get_fclassname, in order
  k_hist,         \* the constants constantWrapper has visited, in order
  decl_nodes,     \* declaration -> the attributes the handlers set on its node
  n_hist,         \* the names given to and used for the declarations, in order
  ie_in,          \* is_fortran_intexpr: the string handed to it
  ie_out,         \* is_fortran_intexpr: <<>> or <<the value returned>>
  p_names,        \* the "name" attribute of the parameters of one function
  p_fname,        \* the "fname" attribute of these parameters (NullStr: none)
  p_hist          \* the calls of makeParameterName, in order

vars == <<phase, ndebug, m_in, m_out, m_out2, m_pc, assert_failed,
          symtab, sym_name, r_hist,
          f_wrapper, f_finterfaces, f_fsubprograms, f_fdecl, d_overloads, w_hist,
          cplusplus, cur_class, f_class, f_policies, d_method_overloads,
          d_constructors, c_hist, rel_handles, rel_next, rel_hist,
          e_hist, d_mangled_type, t_hist, k_hist, decl_nodes, n_hist,
          ie_in, ie_out, p_names, p_fname, p_hist>>

mangleVars == <<m_in, m_out, m_out2, m_pc>>

registryVars == <<symtab, sym_name, r_hist>>

outputVars == <<f_wrapper, f_finterfaces, f_fsubprograms, f_fdecl, d_overloads, w_hist>>

classVars == <<cplusplus, cur_class, f_class, f_policies, d_method_overloads,
               d_constructors, c_hist>>

releaseVars == <<rel_handles, rel_next, rel_hist>>

\* the variables of the parts that check one function on its inputs
pureVars == <<ie_in, ie_out, p_names, p_fname, p_hist>>

declVars == <<e_hist, d_mangled_type, t_hist, k_hist, decl_nodes, n_hist, pureVars>>

restVars == <<classVars, releaseVars, declVars>>

\* the members of the FORTRAN object that are NULL until a class is wrapped
ClassIdle ==
  /\ cur_class = <<>>
  /\ f_class = <<>>
  /\ f_policies = <<>>
  /\ d_method_overloads = <<>>
  /\ d_constructors = <<>>
  /\ c_hist = <<>>

\* no generated code has run
ReleaseIdle ==
  /\ rel_handles = <<>>
  /\ rel_next = 0
  /\ rel_hist = <<>>

\* no function is being checked on its inputs
PureIdle ==
  /\ ie_in = <<>>
  /\ ie_out = <<>>
  /\ p_names = <<>>
  /\ p_fname = <<>>
  /\ p_hist = <<>>

\* no enumeration has been visited and no placeholder substituted
DeclIdle ==
  /\ e_hist = <<>>
  /\ d_mangled_type = <<>>
  /\ t_hist = <<>>
  /\ k_hist = <<>>
  /\ decl_nodes = <<>>
  /\ n_hist = <<>>
  /\ PureIdle

RestIdle ==
  /\ cplusplus = TRUE
  /\ ClassIdle
  /\ ReleaseIdle
  /\ DeclIdle

(***************************************************************************)
(* Bounds of the model.                                                    *)
(***************************************************************************)
MaxHead == 2    \* longest head of a raw name drawn for make_fname
MaxTail == 2    \* longest tail of a raw name drawn for make_fname
MaxRegOps == 3  \* number of calls made on the symbol registry
MaxOps == 2     \* number of operations functionWrapper visits

(***************************************************************************)
(* Characters.                                                             *)
(***************************************************************************)
IsDigitChar(c) == c >= 48 /\ c <= 57          \* '0' .. '9'
IsUnderscore(c) == c = 95                     \* '_'
IsUpperChar(c) == c >= 65 /\ c <= 90          \* 'A' .. 'Z'
IsLetterChar(c) == IsUpperChar(c) \/ (c >= 97 /\ c <= 122)

\* tolower() of one character
ToLowerChar(c) == IF IsUpperChar(c) THEN c + 32 ELSE c

\* Swig_string_lower: the string with every character lower-cased
Swig_string_lower(s) == [i \in 1..Len(s) |-> ToLowerChar(s[i])]

\* the sequence of n copies of the character c
Fill(c, n) == [i \in 1..n |-> c]

\* all sequences over S of length at most n
RECURSIVE SeqsUpTo(_, _)
SeqsUpTo(S, n) ==
  IF n = 0 THEN {<<>>}
  ELSE LET shorter == SeqsUpTo(S, n - 1)
       IN shorter \cup {Append(s, c) : s \in {t \in shorter : Len(t) = n - 1}, c \in S}

(***************************************************************************)
(* is_valid_identifier                                                     *)
(***************************************************************************)
is_valid_identifier(name) ==
  IF Len(name) = 0 THEN FALSE
  ELSE IF IsUnderscore(name[1]) THEN FALSE
  ELSE IF IsDigitChar(name[1]) THEN FALSE
  ELSE IF Len(name) > 63 THEN FALSE
  ELSE TRUE

(***************************************************************************)
(* shorten_identifier.  The hash is an unsigned 32-bit value; it is kept   *)
(* as the pair <<high 16 bits, low 16 bits>> so that hash * 33 + byte      *)
(* modulo 2^32 is computed exactly.                                        *)
(***************************************************************************)
HashSeed == <<0, 5381>>

\* hash = (hash * 33 + *src) & 0xffffffffu
HashStep(h, byte) ==
  LET lo == h[2] * 33 + byte
      hi == h[1] * 33 + (lo \div 65536)
  IN <<hi % 65536, lo % 65536>>

\* the loop over the characters from C index 63 - 8 to the terminator
RECURSIVE HashLoop(_, _, _)
HashLoop(inp, i, h) ==
  IF i > Len(inp) THEN h
  ELSE HashLoop(inp, i + 1, HashStep(h, inp[i]))

HashOfTail(inp) == HashLoop(inp, 63 - 8 + 1, HashSeed)

\* hash % 36 and hash / 36 of a 32-bit value
HashRem36(h) == ((h[1] % 36) * 65536 + h[2]) % 36
HashDiv36(h) == <<h[1] \div 36, ((h[1] % 36) * 65536 + h[2]) \div 36>>

\* (rem < 10 ? '0' + rem : ('A' + rem - 10))
Base36Char(rem) == IF rem < 10 THEN 48 + rem ELSE 65 + rem - 10

\* while (hash > 0) { ...; *dst-- = digit; }  on the character buffer buf,
\* whose cell k + 1 is the C cell result[k]
RECURSIVE WriteHash(_, _, _)
WriteHash(buf, dst, h) ==
  IF h = <<0, 0>> THEN buf
  ELSE WriteHash([buf EXCEPT ![dst] = Base36Char(HashRem36(h))], dst - 1, HashDiv36(h))

\* The result is NewStringWithSize(inp, 63): a buffer of 63 characters and a
\* terminator, and a length of 63.  dst starts at Char(result) + 63, the cell
\* of the terminator; the string returned is the 63 characters of its length.
shorten_identifier_lowdst(inp) ==
  SubSeq(WriteHash(Append(SubSeq(inp, 1, 63), 0), 55, HashOfTail(inp)), 1, 63)

shorten_identifier(inp) ==
  SubSeq(WriteHash(Append(SubSeq(inp, 1, 63), 0), 63 + 1, HashOfTail(inp)), 1, 63)

(***************************************************************************)
(* ensure_short                                                            *)
(***************************************************************************)
ensure_short_never(str) == str

ensure_short(str) == IF Len(str) > 63 THEN shorten_identifier(str) ELSE str

\* assert(is_valid_identifier(shortened)) inside ensure_short
ensure_short_assert(str) ==
  Len(str) > 63 => is_valid_identifier(shorten_identifier(str))

(***************************************************************************)
(* make_fname                                                              *)
(***************************************************************************)
\* while (c != stop && (*c == '_' || (*c >= '0' && *c <= '9'))) ++c;
RECURSIVE LeadingInvalid(_, _)
LeadingInvalid(name, c) ==
  IF c < Len(name) /\ (IsUnderscore(name[c + 1]) \/ IsDigitChar(name[c + 1]))
  THEN LeadingInvalid(name, c + 1)
  ELSE c

\* the string before it is shortened: the leading underscores and digits
\* moved to the back, or the name itself when there are none
make_fname_moved(name) ==
  LET c == LeadingInvalid(name, 0)
  IN IF c = 0 THEN name
     ELSE IF c = Len(name) THEN <<102>> \o name                   \* "f"
     ELSE SubSeq(name, c + 1, Len(name)) \o SubSeq(name, 1, c)

make_fname(name) == ensure_short(make_fname_moved(name))

\* the two assertions make_fname evaluates
make_fname_assert(name) ==
  /\ ensure_short_assert(make_fname_moved(name))
  /\ is_valid_identifier(make_fname(name))

(***************************************************************************)
(* The identifier synthesizer applied to raw names.                        *)
(***************************************************************************)
HeadChars == {95, 49, 97}        \* '_', '1', 'a'
TailChars == {121, 57}           \* 'y', '9'
FillLens == {0, 60, 61, 62, 63, 64}

MangleInputs ==
  {h \o Fill(120, n) \o t :
     h \in SeqsUpTo(HeadChars, MaxHead), n \in FillLens, t \in SeqsUpTo(TailChars, MaxTail)}

InitMangle ==
  /\ phase = "mangle"
  /\ ndebug \in BOOLEAN
  /\ m_in \in MangleInputs
  /\ m_out = <<>>
  /\ m_out2 = <<>>
  /\ m_pc = "input"
  /\ assert_failed = FALSE
  /\ symtab = <<>>
  /\ sym_name = <<>>
  /\ r_hist = <<>>
  /\ f_wrapper = <<>>
  /\ f_finterfaces = <<>>
  /\ f_fsubprograms = <<>>
  /\ f_fdecl = <<>>
  /\ d_overloads = <<>>
  /\ w_hist = <<>>
  /\ RestIdle

\* make_fname(name) returns
MangleOnce ==
  /\ phase = "mangle" /\ m_pc = "input"
  /\ make_fname_assert(m_in) \/ ndebug
  /\ m_out' = make_fname(m_in)
  /\ m_pc' = "once"
  /\ assert_failed' = ~make_fname_assert(m_in)
  /\ UNCHANGED <<phase, ndebug, m_in, m_out2, registryVars, outputVars, restVars>>

\* make_fname(name) stops in assert()
MangleAbort ==
  /\ phase = "mangle" /\ m_pc \in {"input", "once"}
  /\ ~ndebug
  /\ ~make_fname_assert(IF m_pc = "input" THEN m_in ELSE m_out)
  /\ m_pc' = "aborted"
  /\ assert_failed' = TRUE
  /\ UNCHANGED <<phase, ndebug, m_in, m_out, m_out2, registryVars, outputVars, restVars>>

\* make_fname(make_fname(name)) returns
MangleTwice ==
  /\ phase = "mangle" /\ m_pc = "once"
  /\ make_fname_assert(m_out) \/ ndebug
  /\ m_out2' = make_fname(m_out)
  /\ m_pc' = "twice"
  /\ assert_failed' = (assert_failed \/ ~make_fname_assert(m_out))
  /\ UNCHANGED <<phase, ndebug, m_in, m_out, registryVars, outputVars, restVars>>

NextMangle == MangleOnce \/ MangleAbort \/ MangleTwice

SpecMangle == InitMangle /\ [][NextMangle]_vars

(***************************************************************************)
(* The symbol registry: add_fsymbol and make_unique_symname on the         *)
(* "fortran" scope.                                                        *)
(***************************************************************************)
\* Setattr(hash, key, value): the hash with key bound to value
Setattr(h, k, v) == [x \in (DOMAIN h) \cup {k} |-> IF x = k THEN v ELSE h[x]]

\* the "%d" rendering of a non-negative int
RECURSIVE FormatInt(_)
FormatInt(i) ==
  IF i < 10 THEN <<48 + i>>
  ELSE Append(FormatInt(i \div 10), 48 + (i % 10))

\* add_fsymbol(s, n, warn) on the scope st: the value returned, the scope
\* afterwards and the diagnostics issued
add_fsymbol_overwrite(st, s, n, warn) ==
  IF ~is_valid_identifier(s)
  THEN [ret |-> "SWIG_NOWRAP", symtab |-> st, errors |-> 1, warnings |-> 0]
  ELSE [ret |-> "SWIG_OK", symtab |-> Setattr(st, Swig_string_lower(s), n),
        errors |-> 0, warnings |-> 0]

add_fsymbol_cased(st, s, n, warn) ==
  IF ~is_valid_identifier(s)
  THEN [ret |-> "SWIG_NOWRAP", symtab |-> st, errors |-> 1, warnings |-> 0]
  ELSE IF s \in DOMAIN st
       THEN [ret |-> "SWIG_NOWRAP", symtab |-> st, errors |-> 0,
             warnings |-> IF warn # "WARN_NONE" THEN 1 ELSE 0]
       ELSE [ret |-> "SWIG_OK", symtab |-> Setattr(st, s, n),
             errors |-> 0, warnings |-> 0]

\* add_fsymbol without the test of the name
add_fsymbol_unchecked(st, s, n, warn) ==
  IF Swig_string_lower(s) \in DOMAIN st
  THEN [ret |-> "SWIG_NOWRAP", symtab |-> st, errors |-> 0,
        warnings |-> IF warn # "WARN_NONE" THEN 1 ELSE 0]
  ELSE [ret |-> "SWIG_OK", symtab |-> Setattr(st, Swig_string_lower(s), n),
        errors |-> 0, warnings |-> 0]

add_fsymbol(st, s, n, warn) ==
  IF ~is_valid_identifier(s)
  THEN [ret |-> "SWIG_NOWRAP", symtab |-> st, errors |-> 1, warnings |-> 0]
  ELSE LET lower == Swig_string_lower(s)
       IN IF lower \in DOMAIN st
          THEN [ret |-> "SWIG_NOWRAP", symtab |-> st, errors |-> 0,
                warnings |-> IF warn # "WARN_NONE" THEN 1 ELSE 0]
          ELSE [ret |-> "SWIG_OK", symtab |-> Setattr(st, lower, n),
                errors |-> 0, warnings |-> 0]

\* NewStringf("%s%d", name, i), and the name itself before the first round
Suffixed(name, i) == IF i = 0 THEN name ELSE name \o FormatInt(i)

\* while (Getattr(symtab, lower)) { ++i; lower = NewStringf("%s%d", orig_lower, i); }
RECURSIVE UniqueLoop(_, _, _)
UniqueLoop(st, orig_lower, i) ==
  IF Suffixed(orig_lower, i) \in DOMAIN st
  THEN UniqueLoop(st, orig_lower, i + 1)
  ELSE i

\* make_unique_symname(n) on the scope st, n having the sym:name name: the
\* name returned, the scope and the sym:name afterwards, the warnings issued
make_unique_symname_from2(st, name, n) ==
  LET symname == make_fname(name)
      orig_lower == Swig_string_lower(symname)
      i == IF orig_lower \in DOMAIN st THEN UniqueLoop(st, orig_lower, 2) ELSE 0
  IN [ret |-> Suffixed(symname, i),
      symtab |-> Setattr(st, Suffixed(orig_lower, i), n),
      sym_name |-> IF i # 0 THEN Suffixed(symname, i) ELSE name,
      warnings |-> IF i # 0 THEN 1 ELSE 0]

make_unique_symname(st, name, n) ==
  LET symname == make_fname(name)
      orig_lower == Swig_string_lower(symname)
      i == UniqueLoop(st, orig_lower, 0)
  IN [ret |-> Suffixed(symname, i),
      symtab |-> Setattr(st, Suffixed(orig_lower, i), n),
      sym_name |-> IF i # 0 THEN Suffixed(symname, i) ELSE name,
      warnings |-> IF i # 0 THEN 1 ELSE 0]

Nodes == {"n1", "n2"}

Str_Foo == <<70, 111, 111>>             \* "Foo"
Str_foo == <<102, 111, 111>>            \* "foo"
Str_foo1 == <<102, 111, 111, 49>>       \* "foo1"
Str_uFoo == <<95, 70, 111, 111>>        \* "_Foo"

\* the names handed to add_fsymbol
RegNames == {Str_Foo, Str_foo, Str_foo1, Str_uFoo}

\* the sym:name the parser gave the nodes
NodeNames == {Str_Foo, Str_foo, Str_uFoo}

Severities == {"WARN_FORTRAN_NAME_CONFLICT", "WARN_NONE"}

InitRegistry ==
  /\ phase = "registry"
  /\ ndebug = FALSE
  /\ m_in = <<>>
  /\ m_out = <<>>
  /\ m_out2 = <<>>
  /\ m_pc = "idle"
  /\ assert_failed = FALSE
  /\ symtab = <<>>
  /\ sym_name \in [Nodes -> NodeNames]
  /\ r_hist = <<>>
  /\ f_wrapper = <<>>
  /\ f_finterfaces = <<>>
  /\ f_fsubprograms = <<>>
  /\ f_fdecl = <<>>
  /\ d_overloads = <<>>
  /\ w_hist = <<>>
  /\ RestIdle

\* a call add_fsymbol(s, n, warn)
RegAdd ==
  /\ phase = "registry" /\ Len(r_hist) < MaxRegOps
  /\ \E s \in RegNames, n \in Nodes, warn \in Severities :
       LET r == add_fsymbol(symtab, s, n, warn)
       IN /\ symtab' = r.symtab
          /\ r_hist' = Append(r_hist,
               [op |-> "add_fsymbol", node |-> n, name |-> s, warn |-> warn,
                ret |-> r.ret, before |-> symtab, errors |-> r.errors,
                warnings |-> r.warnings])
  /\ UNCHANGED <<phase, ndebug, mangleVars, assert_failed, sym_name, outputVars, restVars>>

\* a call make_unique_symname(n)
RegUnique ==
  /\ phase = "registry" /\ Len(r_hist) < MaxRegOps
  /\ \E n \in Nodes :
       LET r == make_unique_symname(symtab, sym_name[n], n)
       IN /\ symtab' = r.symtab
          /\ sym_name' = [sym_name EXCEPT ![n] = r.sym_name]
          /\ r_hist' = Append(r_hist,
               [op |-> "make_unique_symname", node |-> n, name |-> sym_name[n],
                warn |-> "WARN_FORTRAN_NAME_CONFLICT",
                ret |-> r.ret, before |-> symtab, errors |-> 0,
                warnings |-> r.warnings])
  /\ UNCHANGED <<phase, ndebug, mangleVars, assert_failed, outputVars, restVars>>

NextRegistry == RegAdd \/ RegUnique

SpecRegistry == InitRegistry /\ [][NextRegistry]_vars

(***************************************************************************)
(* The function wrapping pipeline: functionWrapper and its three stages.   *)
(*                                                                         *)
(* A declaration node n is a record of the attributes the generator reads; *)
(* n.parms is its parameter list.  The text a stage emits is a record      *)
(* naming the operation that caused it and the sequence of the snippets of *)
(* its body, each snippet tagged with its typemap and its parameter.       *)
(***************************************************************************)
\* a NULL String: the terminator alone, which no C string contains
NullStr == <<0>>

Str_swigc == <<115, 119, 105, 103, 99, 95>>          \* "swigc_"
Str_swigf == <<115, 119, 105, 103, 102, 95>>         \* "swigf_"
Str_wrap == <<95, 119, 114, 97, 112, 95>>            \* "_wrap_"
Str_get == <<103, 101, 116, 95>>                     \* "get_"
Str_set == <<115, 101, 116, 95>>                     \* "set_"

\* Swig_name_wrapper(symname)
Swig_name_wrapper(symname) == Str_wrap \o symname

\* proxy_name_construct(nspace, symname) with no namespace and no class
proxy_name_construct(symname) == ensure_short(Str_swigf \o symname)

\* the concatenation of the members of a sequence of sequences
RECURSIVE Flatten(_)
Flatten(ss) == IF ss = <<>> THEN <<>> ELSE Head(ss) \o Flatten(Tail(ss))

\* the positions i with keep[i], in order
SelectIdx(keep) ==
  Flatten([i \in 1..Len(keep) |-> IF keep[i] THEN <<i>> ELSE <<>>])

\* the concatenation of the sequences piece[idx[1]], piece[idx[2]], ...
Concat(idx, piece) == Flatten([k \in 1..Len(idx) |-> piece[idx[k]]])

\* whether a loop over idx that returns at the first member i with bad[i]
\* returns early
AnyBad(idx, bad) == \E k \in 1..Len(idx) : bad[idx[k]]

\* the names functionWrapper computes for n before any override: wname,
\* imname, fname and fsymname
WrapperBase(n) ==
  IF ~n.bindc
  THEN [wname |-> Swig_name_wrapper(n.symname),
        imname |-> ensure_short(Str_swigc \o n.symname),
        fname |-> IF n.fortran_fname # NullStr THEN n.fortran_fname
                  ELSE IF n.variable # NullStr
                  THEN (IF n.member THEN proxy_name_construct(n.symname)
                        ELSE ensure_short((IF n.varset THEN Str_set ELSE Str_get)
                                          \o n.variable))
                  ELSE make_fname(n.symname),
        \* the accessor of a member variable is an alias of the proxy
        fsymname |-> IF n.fortran_fname = NullStr /\ n.variable # NullStr /\ n.member
                     THEN ensure_short((IF n.varset THEN Str_set ELSE Str_get)
                                       \o n.variable)
                     ELSE NullStr]
  ELSE [wname |-> n.name,
        imname |-> make_fname(n.symname),
        fname |-> NullStr,
        fsymname |-> NullStr]

\* feature:fortran:generic or fortran:name overrides fsymname
WrapperManual(n, base) ==
  IF n.generic # NullStr THEN [base EXCEPT !.fsymname = n.generic]
  ELSE IF n.fortran_name # NullStr THEN [base EXCEPT !.fsymname = n.fortran_name]
  ELSE base

\* the suffix of an overloaded function, and whether the procedure is generic
WrapperOverload(n, manual) ==
  IF n.overname = NullStr
  THEN [wname |-> manual.wname, imname |-> manual.imname, fname |-> manual.fname,
        fsymname |-> manual.fsymname, generic |-> n.generic # NullStr]
  ELSE [wname |-> manual.wname \o n.overname,
        imname |-> manual.imname \o n.overname,
        fname |-> (IF manual.fsymname = NullStr
                   THEN proxy_name_construct(n.symname)
                   ELSE manual.fname) \o n.overname,
        fsymname |-> IF manual.fsymname = NullStr THEN manual.fname
                     ELSE manual.fsymname,
        generic |-> TRUE]

\* the names functionWrapper computes for n
WrapperNames(n) == WrapperOverload(n, WrapperManual(n, WrapperBase(n)))

\* the return typemaps of n: whether ctype is void, imtype and ftype empty
is_csubroutine(n) == n.rkind = "void"
is_imsubroutine(n) == n.rkind = "void"
ftype_empty(n) == n.rkind \in {"void", "value_fsub"}

(***************************************************************************)
(* Stage 1: cfuncWrapper.                                                  *)
(***************************************************************************)
CWrapped_keepvarargs(p) == ~p.numinputs0

\* the parameters the loop over the parameter list does not skip: neither
\* numinputs=0 nor varargs:ignore
CWrapped(p) == ~p.numinputs0 /\ ~p.varargs

CtypeFails(parms) ==
  LET Bad == [i \in 1..Len(parms) |-> CWrapped(parms[i]) /\ ~parms[i].ctype_ok]
  IN AnyBad([i \in 1..Len(parms) |-> i], Bad)

\* cparmlist: the parameters wrapped by the intermediate function
CParmList(parms) == SelectIdx([i \in 1..Len(parms) |-> CWrapped(parms[i])])

\* the warnings for the variadic parameters that are skipped
VarargWarnings(parms) ==
  LET IsVar == [i \in 1..Len(parms) |-> ~parms[i].numinputs0 /\ parms[i].varargs]
      Warn == [i \in 1..Len(parms) |-> <<"WARN_LANG_NATIVE_UNIMPL">>]
  IN Concat(SelectIdx(IsVar), Warn)

\* cfunc->code
CBody(n, cparms) ==
  LET InCheck == [i \in 1..Len(n.parms) |->
        (IF n.parms[i].tm_in THEN <<[k |-> "in", p |-> i]>> ELSE <<>>)
        \o (IF n.parms[i].tm_check THEN <<[k |-> "check", p |-> i]>> ELSE <<>>)]
      Cleanup == [i \in 1..Len(n.parms) |->
        IF n.parms[i].tm_freearg THEN <<[k |-> "freearg", p |-> i]>> ELSE <<>>]
      Outarg == [i \in 1..Len(n.parms) |->
        IF n.parms[i].tm_argout THEN <<[k |-> "argout", p |-> i]>> ELSE <<>>]
  IN Concat(cparms, InCheck)
     \* actioncode is handed to Swig_typemap_lookup_out("out", ...), which
     \* writes it with the typemap it finds; no other statement prints it,
     \* so without the typemap there is only the warning
     \o (IF n.out_tm
         THEN <<[k |-> "call", p |-> 0], [k |-> "out", p |-> 0]>>
         ELSE <<>>)
     \o Concat(cparms, Outarg)
     \o Concat(cparms, Cleanup)
     \o (IF n.ret_tm THEN <<[k |-> "ret", p |-> 0]>> ELSE <<>>)
     \o (IF ~is_csubroutine(n) THEN <<[k |-> "return", p |-> 0]>> ELSE <<>>)

\* cfuncWrapper(n): the value returned, the text printed into f_wrapper,
\* wrap:cparms and the diagnostics
cfuncWrapper(n, id, names) ==
  IF ~n.ctype_ret_ok
  THEN [ret |-> "SWIG_NOWRAP", f_wrapper |-> <<>>, cparms |-> <<>>,
        diags |-> <<"WARN_FORTRAN_TYPEMAP_CTYPE_UNDEF", "error">>]
  ELSE IF n.overname # NullStr /\ n.overload_ignore
  THEN [ret |-> "SWIG_NOWRAP", f_wrapper |-> <<>>, cparms |-> <<>>, diags |-> <<>>]
  ELSE IF CtypeFails(n.parms)
  THEN [ret |-> "SWIG_NOWRAP", f_wrapper |-> <<>>, cparms |-> <<>>,
        diags |-> <<"WARN_FORTRAN_TYPEMAP_CTYPE_UNDEF", "error">>]
  ELSE LET cparms == CParmList(n.parms)
       IN [ret |-> "SWIG_OK",
           f_wrapper |-> <<[op |-> id, stage |-> "cfunc", name |-> names.wname,
                            args |-> cparms, body |-> CBody(n, cparms)]>>,
           cparms |-> cparms,
           diags |-> VarargWarnings(n.parms)
                     \o (IF n.out_tm THEN <<>> ELSE <<"WARN_TYPEMAP_OUT_UNDEF">>)]

(***************************************************************************)
(* bindcfuncWrapper                                                        *)
(***************************************************************************)
bindcfuncWrapper(n) ==
  LET IsVar == [i \in 1..Len(n.parms) |-> n.parms[i].varargs]
      all == [i \in 1..Len(n.parms) |-> i]
  IN IF AnyBad(all, IsVar)
     THEN [ret |-> "SWIG_NOWRAP", cparms |-> <<>>, diags |-> <<"WARN_LANG_NATIVE_UNIMPL">>]
     ELSE [ret |-> "SWIG_OK", cparms |-> all, diags |-> <<>>]

(***************************************************************************)
(* Stage 2: imfuncWrapper.                                                 *)
(***************************************************************************)
imfuncWrapper(n, id, names, cparms) ==
  LET Bad == [i \in 1..Len(n.parms) |-> n.parms[i].im_baddims]
  IN IF AnyBad(cparms, Bad)
     THEN [ret |-> "SWIG_NOWRAP", f_finterfaces |-> <<>>,
           diags |-> <<"WARN_LANG_IDENTIFIER">>]
     ELSE [ret |-> "SWIG_OK",
           f_finterfaces |-> <<[op |-> id, stage |-> "imfunc", name |-> names.imname,
                                bind |-> names.wname, args |-> cparms,
                                function |-> ~is_imsubroutine(n)]>>,
           diags |-> <<>>]

(***************************************************************************)
(* Stage 3: proxyfuncWrapper.                                              *)
(***************************************************************************)
\* the call of the interface routine: "fresult = imname(...)" or "call ..."
FCall(n, names, cparms) ==
  [k |-> "call", p |-> 0, assign |-> ~is_imsubroutine(n), name |-> names.imname,
   args |-> cparms]

\* feature:shadow with every $action replaced by the call
RECURSIVE ReplaceAction(_, _)
ReplaceAction(shadow, fcall) ==
  IF shadow = <<>> THEN <<>>
  ELSE (IF Head(shadow) = "$action" THEN <<fcall>>
        ELSE <<[k |-> "shadow", p |-> 0]>>)
       \o ReplaceAction(Tail(shadow), fcall)

PBody_foutfirst(n, names, cparms) ==
  LET Fin == [i \in 1..Len(n.parms) |->
        IF n.parms[i].fin THEN <<[k |-> "fin", p |-> i]>> ELSE <<>>]
      Fargout == [i \in 1..Len(n.parms) |->
        IF n.parms[i].fargout THEN <<[k |-> "fargout", p |-> i]>> ELSE <<>>]
      fcall == FCall(n, names, cparms)
  IN (IF n.prepend THEN <<[k |-> "prepend", p |-> 0]>> ELSE <<>>)
     \o Concat(cparms, Fin)
     \o (IF n.fout THEN <<[k |-> "fout", p |-> 0]>> ELSE <<>>)
     \o (IF n.has_shadow THEN ReplaceAction(n.shadow, fcall) ELSE <<fcall>>)
     \o Concat(cparms, Fargout)
     \o (IF n.append THEN <<[k |-> "append", p |-> 0]>> ELSE <<>>)

\* ffunc->code
PBody(n, names, cparms) ==
  LET Fin == [i \in 1..Len(n.parms) |->
        IF n.parms[i].fin THEN <<[k |-> "fin", p |-> i]>> ELSE <<>>]
      Fargout == [i \in 1..Len(n.parms) |->
        IF n.parms[i].fargout THEN <<[k |-> "fargout", p |-> i]>> ELSE <<>>]
      fcall == FCall(n, names, cparms)
  IN (IF n.prepend THEN <<[k |-> "prepend", p |-> 0]>> ELSE <<>>)
     \o Concat(cparms, Fin)
     \o (IF n.has_shadow THEN ReplaceAction(n.shadow, fcall) ELSE <<fcall>>)
     \o (IF n.fout THEN <<[k |-> "fout", p |-> 0]>> ELSE <<>>)
     \o Concat(cparms, Fargout)
     \o (IF n.append THEN <<[k |-> "append", p |-> 0]>> ELSE <<>>)

\* proxyfuncWrapper(n): the value returned, the text printed into
\* f_fsubprograms (the docstring is written first, the routine last)
proxyfuncWrapper(n, id, names, cparms) ==
  LET doc == IF n.docstring
             THEN <<[op |-> id, stage |-> "docstring", name |-> names.fname,
                     body |-> <<>>]>>
             ELSE <<>>
      Bad == [i \in 1..Len(n.parms) |-> n.parms[i].f_baddims]
  IN IF AnyBad(cparms, Bad) \/ n.fout_baddims
     THEN [ret |-> "SWIG_NOWRAP", f_fsubprograms |-> doc,
           diags |-> <<"WARN_LANG_IDENTIFIER">>]
     ELSE [ret |-> "SWIG_OK",
           f_fsubprograms |-> doc \o
             <<[op |-> id, stage |-> "proxy", name |-> names.fname,
                body |-> PBody(n, names, cparms)]>>,
           diags |-> <<>>]

(***************************************************************************)
(* functionWrapper                                                         *)
(***************************************************************************)
AppendOverload_prepend(ov, fsymname, fname) ==
  Setattr(ov, fsymname,
          <<fname>> \o (IF fsymname \in DOMAIN ov THEN ov[fsymname] ELSE <<>>))

\* get_default_list(d_overloads, fsymname) followed by Append(overloads, fname)
AppendOverload(ov, fsymname, fname) ==
  Setattr(ov, fsymname,
          Append(IF fsymname \in DOMAIN ov THEN ov[fsymname] ELSE <<>>, fname))

\* write_module: one "interface <key> / module procedure <list> / public"
\* block per key of the hash of overloads
write_module(ov) ==
  {[interface |-> k, procedures |-> ov[k], public |-> k] : k \in DOMAIN ov}

\* the result of functionWrapper that returns SWIG_NOWRAP at the given
\* place, with what has been registered and printed until then
NoWrap(stage, st, fw, fi, fs, diags) ==
  [ret |-> "SWIG_NOWRAP", stage |-> stage, symtab |-> st,
   f_wrapper |-> fw, f_finterfaces |-> fi, f_fsubprograms |-> fs,
   f_fdecl |-> <<>>, overload |-> <<>>, f_class |-> <<>>,
   method_overload |-> <<>>, diags |-> diags]

\* the class context of a function that is not wrapped inside a class
NoClass == [open |-> FALSE, symname |-> NullStr, bindc_struct |-> FALSE]

\* the assertions functionWrapper evaluates while it computes the names;
\* a build with NDEBUG prints the node and goes on
functionWrapper_assert(n) ==
  /\ n.overname # NullStr => ~n.bindc
  /\ (~n.bindc /\ n.fortran_fname # NullStr) => is_valid_identifier(n.fortran_fname)
  /\ (~n.bindc /\ n.fortran_fname = NullStr /\ n.variable = NullStr)
       => make_fname_assert(n.symname)
  /\ n.bindc => make_fname_assert(n.symname)
  /\ (n.generic # NullStr \/ n.fortran_name # NullStr)
       => WrapperBase(n).fsymname = NullStr

\* the assertions functionWrapper evaluates after the stages, before it
\* declares a member procedure in the type being written
functionWrapper_assert_member(n, names, cls) ==
  (~n.private /\ n.member) =>
    /\ ~cls.bindc_struct
    /\ cls.open
    /\ names.fname # NullStr
    /\ names.fsymname # NullStr

\* a comparison of the names that tells 'Foo' and 'foo' apart
conflicts_with_class_cased(fsymname, symname_cls) ==
  fsymname = symname_cls

\* the test functionWrapper makes on a member: lower_func against lower_cls
conflicts_with_class(fsymname, symname_cls) ==
  Swig_string_lower(fsymname) = Swig_string_lower(symname_cls)

\* functionWrapper(n) once the names are computed: the registration of the
\* names, the stages and the module interface code
functionWrapper_named(st, n, id, names, cls) ==
  LET reg_im == add_fsymbol(st, names.imname, id, "WARN_FORTRAN_NAME_CONFLICT")
      reg_f == IF names.fname # NullStr
               THEN add_fsymbol(reg_im.symtab, names.fname, id, "WARN_FORTRAN_NAME_CONFLICT")
               ELSE [ret |-> "SWIG_OK", symtab |-> reg_im.symtab,
                     errors |-> 0, warnings |-> 0]
      RegDiags(r) == (IF r.errors > 0 THEN <<"error">> ELSE <<>>)
                     \o (IF r.warnings > 0 THEN <<"WARN_FORTRAN_NAME_CONFLICT">> ELSE <<>>)
      c == cfuncWrapper(n, id, names)
      b == bindcfuncWrapper(n)
      cparms == IF n.bindc THEN b.cparms ELSE c.cparms
      im == imfuncWrapper(n, id, names, cparms)
      px == proxyfuncWrapper(n, id, names, cparms)
  IN IF reg_im.ret = "SWIG_NOWRAP"
     THEN NoWrap("imname", reg_im.symtab, <<>>, <<>>, <<>>, RegDiags(reg_im))
     ELSE IF reg_f.ret = "SWIG_NOWRAP"
     THEN NoWrap("fname", reg_f.symtab, <<>>, <<>>, <<>>, RegDiags(reg_f))
     ELSE IF n.member /\ conflicts_with_class(names.fsymname, cls.symname)
     THEN NoWrap("classname", reg_f.symtab, <<>>, <<>>, <<>>,
                 <<"WARN_FORTRAN_NAME_CONFLICT">>)
     ELSE IF ~n.bindc /\ c.ret = "SWIG_NOWRAP"
     THEN NoWrap("cfuncWrapper", reg_f.symtab, <<>>, <<>>, <<>>, c.diags)
     ELSE IF n.bindc /\ b.ret = "SWIG_NOWRAP"
     THEN NoWrap("bindcfuncWrapper", reg_f.symtab, <<>>, <<>>, <<>>, b.diags)
     ELSE IF im.ret = "SWIG_NOWRAP"
     THEN NoWrap("imfuncWrapper", reg_f.symtab,
                 IF n.bindc THEN <<>> ELSE c.f_wrapper, <<>>, <<>>,
                 (IF n.bindc THEN b.diags ELSE c.diags) \o im.diags)
     ELSE IF ~n.bindc /\ px.ret = "SWIG_NOWRAP"
     THEN NoWrap("proxyfuncWrapper", reg_f.symtab, c.f_wrapper, im.f_finterfaces,
                 px.f_fsubprograms, c.diags \o im.diags \o px.diags)
     ELSE [ret |-> "SWIG_OK", stage |-> "done", symtab |-> reg_f.symtab,
           f_wrapper |-> IF n.bindc THEN <<>> ELSE c.f_wrapper,
           f_finterfaces |-> im.f_finterfaces,
           f_fsubprograms |-> IF n.bindc THEN <<>> ELSE px.f_fsubprograms,
           f_fdecl |->
             IF n.private \/ n.member \/ names.fsymname # NullStr THEN <<>>
             ELSE IF n.bindc
             THEN <<[op |-> id, stage |-> "public", name |-> names.imname]>>
             ELSE <<[op |-> id, stage |-> "public", name |-> names.fname]>>,
           overload |->
             IF ~n.private /\ ~n.member /\ names.fsymname # NullStr
             THEN <<<<names.fsymname, names.fname>>>>
             ELSE <<>>,
           \* "procedure :: fsymname => fname", or for a generic procedure
           \* "procedure, private :: fname"
           f_class |->
             IF ~n.private /\ n.member
             THEN <<[op |-> id, k |-> "procedure", private |-> names.generic,
                     name |-> IF names.generic THEN names.fname ELSE names.fsymname,
                     target |-> names.fname]>>
             ELSE <<>>,
           method_overload |->
             IF ~n.private /\ n.member /\ names.generic
             THEN <<<<names.fsymname, names.fname>>>>
             ELSE <<>>,
           diags |-> (IF n.bindc THEN b.diags ELSE c.diags \o im.diags \o px.diags)]

\* functionWrapper(n) for the id-th operation on the scope st: the value
\* returned, the scope afterwards, the text appended to each output section,
\* the entry appended to d_overloads and the diagnostics
functionWrapper(st, n, id, cls) ==
  functionWrapper_named(st, n, id, WrapperNames(n), cls)

(***************************************************************************)
(* The declarations handed to functionWrapper.                             *)
(***************************************************************************)
Str_thinvec == <<116, 104, 105, 110, 118, 101, 99>>              \* "thinvec"
Str_print_vec == <<112, 114, 105, 110, 116, 95, 118, 101, 99>>   \* "print_vec"
Str_SWIG_0 == <<95, 95, 83, 87, 73, 71, 95, 48>>                 \* "__SWIG_0"
Str_SWIG_1 == <<95, 95, 83, 87, 73, 71, 95, 49>>                 \* "__SWIG_1"

\* a parameter with every typemap attached
ParmFull ==
  [numinputs0 |-> FALSE, varargs |-> FALSE, ctype_ok |-> TRUE,
   tm_in |-> TRUE, tm_check |-> TRUE, tm_freearg |-> TRUE, tm_argout |-> TRUE,
   im_baddims |-> FALSE, f_baddims |-> FALSE, fin |-> TRUE, fargout |-> TRUE]

ParmInOnly ==
  [ParmFull EXCEPT !.tm_check = FALSE, !.tm_freearg = FALSE, !.tm_argout = FALSE,
                   !.fargout = FALSE]

ParmLists ==
  { <<>>,
    <<ParmFull>>,
    <<ParmFull, ParmFull>>,
    <<ParmInOnly, ParmFull>>,
    <<[ParmFull EXCEPT !.numinputs0 = TRUE], ParmFull>>,
    <<ParmFull, [ParmFull EXCEPT !.varargs = TRUE]>>,
    <<ParmFull, [ParmFull EXCEPT !.ctype_ok = FALSE]>>,
    <<[ParmFull EXCEPT !.im_baddims = TRUE], ParmFull>>,
    <<ParmFull, [ParmFull EXCEPT !.f_baddims = TRUE]>> }

\* a free function returning a value, every return typemap attached
BaseOp ==
  [kind |-> "function", symname |-> Str_foo, name |-> Str_foo, bindc |-> FALSE,
   variable |-> NullStr, varset |-> FALSE, generic |-> NullStr,
   fortran_fname |-> NullStr, member |-> FALSE, private |-> FALSE,
   fortran_name |-> NullStr, overname |-> NullStr, overload_ignore |-> FALSE,
   ctype_ret_ok |-> TRUE, rkind |-> "value", out_tm |-> TRUE, ret_tm |-> FALSE,
   parms |-> <<ParmFull, ParmFull>>,
   docstring |-> FALSE, prepend |-> FALSE, append |-> FALSE,
   has_shadow |-> FALSE, shadow |-> <<>>, fout |-> TRUE, fout_baddims |-> FALSE]

OpVariants ==
  { [BaseOp EXCEPT !.rkind = "void", !.fout = FALSE],
    [BaseOp EXCEPT !.rkind = "value_fsub"],
    [BaseOp EXCEPT !.out_tm = FALSE],
    [BaseOp EXCEPT !.ret_tm = TRUE],
    [BaseOp EXCEPT !.ctype_ret_ok = FALSE],
    [BaseOp EXCEPT !.overname = Str_SWIG_0],
    [BaseOp EXCEPT !.overname = Str_SWIG_1],
    [BaseOp EXCEPT !.overname = Str_SWIG_1, !.overload_ignore = TRUE],
    [BaseOp EXCEPT !.bindc = TRUE],
    [BaseOp EXCEPT !.bindc = TRUE, !.parms = <<ParmFull, [ParmFull EXCEPT !.varargs = TRUE]>>],
    [BaseOp EXCEPT !.bindc = TRUE, !.overname = Str_SWIG_0],
    [BaseOp EXCEPT !.docstring = TRUE],
    [BaseOp EXCEPT !.docstring = TRUE, !.fout_baddims = TRUE],
    [BaseOp EXCEPT !.prepend = TRUE, !.append = TRUE],
    [BaseOp EXCEPT !.has_shadow = TRUE, !.shadow = <<"$action">>],
    [BaseOp EXCEPT !.has_shadow = TRUE, !.shadow = <<"text">>],
    [BaseOp EXCEPT !.has_shadow = TRUE, !.shadow = <<"$action", "text", "$action">>],
    [BaseOp EXCEPT !.fortran_name = Str_print_vec],
    [BaseOp EXCEPT !.generic = Str_print_vec],
    [BaseOp EXCEPT !.variable = Str_foo],
    [BaseOp EXCEPT !.variable = Str_foo, !.varset = TRUE, !.rkind = "void", !.fout = FALSE] }

OpNames == {Str_foo, Str_Foo}

OpDescriptors ==
  {[BaseOp EXCEPT !.parms = pl, !.symname = s, !.name = s] : pl \in ParmLists, s \in OpNames}
  \cup {[v EXCEPT !.symname = s, !.name = s] : v \in OpVariants, s \in OpNames}

\* the state after FORTRAN::top has made the output sections and
\* moduleDirective has registered the module name
Init ==
  /\ phase = "wrap"
  /\ ndebug \in BOOLEAN
  /\ m_in = <<>>
  /\ m_out = <<>>
  /\ m_out2 = <<>>
  /\ m_pc = "idle"
  /\ assert_failed = FALSE
  /\ symtab = Setattr(<<>>, Swig_string_lower(Str_thinvec), 0)
  /\ sym_name = <<>>
  /\ r_hist = <<>>
  /\ f_wrapper = <<>>
  /\ f_finterfaces = <<>>
  /\ f_fsubprograms = <<>>
  /\ f_fdecl = <<>>
  /\ d_overloads = <<>>
  /\ w_hist = <<>>
  /\ RestIdle

\* the traversal visits one more operation: functionWrapper(n) runs
WrapFunction ==
  /\ phase = "wrap" /\ ~assert_failed /\ Len(w_hist) < MaxOps
  /\ \E n \in OpDescriptors, id \in {Len(w_hist) + 1} :
     \E r \in {functionWrapper(symtab, n, id, NoClass)} :
          /\ (ndebug \/ functionWrapper_assert(n))
          /\ symtab' = r.symtab
          /\ f_wrapper' = f_wrapper \o r.f_wrapper
          /\ f_finterfaces' = f_finterfaces \o r.f_finterfaces
          /\ f_fsubprograms' = f_fsubprograms \o r.f_fsubprograms
          /\ f_fdecl' = f_fdecl \o r.f_fdecl
          /\ d_overloads' = IF r.overload = <<>> THEN d_overloads
                            ELSE AppendOverload(d_overloads, r.overload[1][1], r.overload[1][2])
          /\ w_hist' = Append(w_hist,
               [id |-> id, n |-> n, names |-> WrapperNames(n), ret |-> r.ret,
                stage |-> r.stage, diags |-> r.diags])
  /\ UNCHANGED <<phase, ndebug, mangleVars, assert_failed, sym_name, r_hist, restVars>>

\* functionWrapper(n) stops in an assertion
WrapAbort ==
  /\ phase = "wrap" /\ ~assert_failed /\ Len(w_hist) < MaxOps
  /\ ~ndebug
  /\ \E n \in OpDescriptors : ~functionWrapper_assert(n)
  /\ assert_failed' = TRUE
  /\ UNCHANGED <<phase, ndebug, mangleVars, registryVars, outputVars, restVars>>

Next == WrapFunction \/ WrapAbort

Spec == Init /\ [][Next]_vars

(***************************************************************************)
(* Classes: classHandler and the handlers of the members of a class.       *)
(*                                                                         *)
(* A class c is a record of the attributes classHandler reads; c.bases is  *)
(* its list of base class nodes.  classHandler opens the type, the         *)
(* traversal of the children calls the member handlers, and classHandler   *)
(* closes the type; the position in this sequence is cur_class.            *)
(***************************************************************************)
MaxVisits == 4

Str_A == <<65>>                                       \* "A"
Str_B == <<66>>                                       \* "B"
Str_C == <<67>>                                       \* "C"
Str_create == <<99, 114, 101, 97, 116, 101>>          \* "create"
Str_release == <<114, 101, 108, 101, 97, 115, 101>>   \* "release"
Str_op_assign == <<111, 112, 95, 97, 115, 115, 105, 103, 110, 95, 95>> \* "op_assign__"
Str_assignment == <<97, 115, 115, 105, 103, 110, 109, 101, 110, 116, 40, 61, 41>> \* "assignment(=)"
Str_new == <<110, 101, 119, 95>>                      \* "new_"
Str_delete == <<100, 101, 108, 101, 116, 101, 95>>    \* "delete_"

\* proxy_name_construct(nspace, classname, symname) with no namespace
proxy_name_construct_class(classname, symname) ==
  ensure_short(Str_swigf \o classname \o <<95>> \o symname)

\* the name the member wrappers of the core give the function they hand to
\* functionWrapper: <class>_<member>, new_<class>, delete_<class>
Swig_name_member(classname, symname) == classname \o <<95>> \o symname

\* a loop over the bases in which the last base that is not ignored wins
BasesLoop_lastwins(bases, basename, dropped) ==
  IF bases = <<>> THEN [basename |-> basename, dropped |-> dropped]
  ELSE LET kept == SelectIdx([i \in 1..Len(bases) |-> ~bases[i].ignore])
       IN IF kept = <<>> THEN [basename |-> basename, dropped |-> dropped]
          ELSE [basename |-> bases[kept[Len(kept)]].fortran_name,
                dropped |-> [q \in 1..(Len(kept) - 1) |-> bases[kept[q]].sym_name]]

\* the loop of classHandler over the bases: basename, and the bases that
\* are dropped with a warning
RECURSIVE BasesLoop(_, _, _)
BasesLoop(bases, basename, dropped) ==
  IF bases = <<>> THEN [basename |-> basename, dropped |-> dropped]
  ELSE IF Head(bases).ignore THEN BasesLoop(Tail(bases), basename, dropped)
  ELSE IF basename = NullStr
  THEN BasesLoop(Tail(bases), Head(bases).fortran_name, dropped)
  ELSE BasesLoop(Tail(bases), basename, Append(dropped, Head(bases).sym_name))

\* is_bindc_struct(): no hash of method overloads has been made
is_bindc_struct == d_method_overloads = <<>>

\* a test that gives every class that is not bound to C its own handle
declares_swigdata_derived(bindc, basename) == ~bindc

\* whether classHandler prints the member swigdata into the type: the class
\* is not bound to C and extends nothing
declares_swigdata(bindc, basename) == ~bindc /\ basename = NullStr

\* classHandler(n) up to the traversal of the members: the value returned
\* (SWIG_OK when the traversal is entered), the diagnostics, the text of the
\* type and the policy macro
classHandler_open(c, id, cxx) ==
  LET b == BasesLoop(c.bases, NullStr, <<>>)
      warnings == [q \in 1..Len(b.dropped) |->
                     [warn |-> "WARN_FORTRAN_MULTIPLE_INHERITANCE", base |-> b.dropped[q]]]
  IN IF c.bindc /\ b.basename # NullStr
     THEN [ret |-> "SWIG_NOWRAP", warnings |-> warnings, errors |-> 1,
           f_class |-> <<>>, f_policies |-> <<>>]
     ELSE [ret |-> "SWIG_OK", warnings |-> warnings, errors |-> 0,
           f_class |->
             <<[cls |-> id, k |-> "type", name |-> c.fortran_name,
                extends |-> b.basename,
                bindc |-> (b.basename = NullStr /\ c.bindc)]>>
             \o (IF declares_swigdata(c.bindc, b.basename)
                 THEN <<[cls |-> id, k |-> "swigdata"]>> ELSE <<>>)
             \o (IF ~c.bindc THEN <<[cls |-> id, k |-> "contains"]>> ELSE <<>>),
           f_policies |-> IF cxx THEN <<[cls |-> id, name |-> c.name]>> ELSE <<>>]

\* the member declarations of a class, as the parser hands them over
MemberOp(kind, symname, overname) ==
  [BaseOp EXCEPT !.kind = kind, !.symname = symname, !.name = symname,
                 !.overname = overname, !.parms = <<ParmFull>>]

MemberDescriptors ==
  { MemberOp("memberfunction", Str_foo, NullStr),
    MemberOp("memberfunction", Str_print_vec, NullStr),
    MemberOp("memberfunction", Str_print_vec, Str_SWIG_0),
    MemberOp("memberfunction", Str_print_vec, Str_SWIG_1),
    MemberOp("staticmemberfunction", Str_print_vec, NullStr),
    MemberOp("constructor", Str_Foo, NullStr),
    [MemberOp("constructor", Str_Foo, Str_SWIG_1)
       EXCEPT !.parms = <<[ParmFull EXCEPT !.ctype_ok = FALSE]>>],
    [MemberOp("destructor", Str_Foo, NullStr) EXCEPT !.rkind = "void", !.fout = FALSE] }

\* memberfunctionHandler and staticmemberfunctionHandler: the attributes set
\* on the node before the member wrapper hands it to functionWrapper
memberfunctionHandler(n, c) ==
  [n EXCEPT !.fortran_fname = proxy_name_construct_class(c.sym_name, n.symname),
            !.fortran_name = make_fname(n.symname),
            !.member = TRUE,
            !.symname = Swig_name_member(c.sym_name, n.symname)]

\* constructorHandler
constructorHandler(n, c) ==
  [n EXCEPT !.fortran_fname = proxy_name_construct_class(Str_create, n.symname),
            !.private = TRUE,
            !.symname = Str_new \o c.sym_name]

\* a shadow text that does not reset the handle after the action
release_shadow_noreset ==
  <<"if (btest(farg1%cmemflags, swig_cmem_own_bit)) then", "$action", "endif">>

\* the feature:shadow text destructorHandler sets, line by line
release_shadow ==
  <<"if (btest(farg1%cmemflags, swig_cmem_own_bit)) then", "$action", "endif",
    "farg1%cptr = C_NULL_PTR", "farg1%cmemflags = 0">>

\* destructorHandler: the member 'release', its action guarded by the
\* ownership bit
destructorHandler(n, c) ==
  [n EXCEPT !.fortran_name = Str_release,
            !.member = TRUE,
            !.fortran_fname = proxy_name_construct_class(Str_release, n.symname),
            !.has_shadow = TRUE,
            !.shadow = release_shadow,
            !.symname = Str_delete \o c.sym_name]

\* the operator add_assignment_operator appends to the children of a class
AssignmentOperator ==
  [BaseOp EXCEPT !.kind = "memberfunction", !.symname = Str_op_assign,
                 !.name = Str_op_assign, !.generic = Str_assignment,
                 !.rkind = "void", !.fout = FALSE,
                 !.parms = <<ParmFull, ParmFull>>]

\* the children classHandler appends to the class before it traverses the
\* members: the assignment operator, for a class that is not bound to C
add_assignment_operator(c) ==
  IF c.bindc THEN <<>> ELSE <<AssignmentOperator>>

\* the class context functionWrapper reads
ClassContext ==
  [open |-> f_class # <<>>, symname |-> cur_class[1].c.sym_name,
   bindc_struct |-> is_bindc_struct]

\* the number of classes and members visited
Visits == Len(c_hist) + Len(w_hist)

\* the effect of functionWrapper(n) on the registry, the output sections
\* and the type being written
ApplyWrap(r, n, id) ==
  /\ symtab' = r.symtab
  /\ f_wrapper' = f_wrapper \o r.f_wrapper
  /\ f_finterfaces' = f_finterfaces \o r.f_finterfaces
  /\ f_fsubprograms' = f_fsubprograms \o r.f_fsubprograms
  /\ f_fdecl' = f_fdecl \o r.f_fdecl
  /\ d_overloads' = IF r.overload = <<>> THEN d_overloads
                    ELSE AppendOverload(d_overloads, r.overload[1][1], r.overload[1][2])
  /\ w_hist' = Append(w_hist,
       [id |-> id, n |-> n, names |-> WrapperNames(n), ret |-> r.ret,
        stage |-> r.stage, diags |-> r.diags, cls |-> cur_class[1].id])

\* the type being written and its generic procedures after functionWrapper
ClassAfterWrap(r) ==
  [f_class |-> IF f_class = <<>> THEN <<>> ELSE <<f_class[1] \o r.f_class>>,
   d_method_overloads |->
     IF r.method_overload = <<>> \/ d_method_overloads = <<>> THEN d_method_overloads
     ELSE <<AppendOverload(d_method_overloads[1], r.method_overload[1][1],
                           r.method_overload[1][2])>>]

Str_Bar == <<66, 97, 114>>                            \* "Bar"

\* a base class node: classDeclaration has given it its fortran:name
BaseClass(name, ignore) ==
  [ignore |-> ignore, sym_name |-> name, fortran_name |-> name]

BaseLists ==
  { <<>>,
    <<BaseClass(Str_A, FALSE)>>,
    <<BaseClass(Str_A, FALSE), BaseClass(Str_B, FALSE)>>,
    <<BaseClass(Str_A, TRUE), BaseClass(Str_B, FALSE), BaseClass(Str_C, FALSE)>>,
    <<BaseClass(Str_A, FALSE), BaseClass(Str_B, TRUE), BaseClass(Str_C, FALSE)>> }

\* the classes the traversal may visit as its i-th class: the first with
\* any of the lists of bases, a later one without bases
ClassDescriptors(i) ==
  {[name |-> nm, sym_name |-> nm, fortran_name |-> nm, bases |-> bl, bindc |-> bc] :
     nm \in {IF i = 1 THEN Str_Foo ELSE Str_Bar},
     bl \in (IF i = 1 THEN BaseLists ELSE {<<>>}), bc \in BOOLEAN}

\* the state after FORTRAN::top has made the output sections and
\* moduleDirective has registered the module name
InitClass ==
  /\ phase = "class"
  /\ ndebug \in BOOLEAN
  /\ m_in = <<>>
  /\ m_out = <<>>
  /\ m_out2 = <<>>
  /\ m_pc = "idle"
  /\ assert_failed = FALSE
  /\ symtab = Setattr(<<>>, Swig_string_lower(Str_thinvec), 0)
  /\ sym_name = <<>>
  /\ r_hist = <<>>
  /\ f_wrapper = <<>>
  /\ f_finterfaces = <<>>
  /\ f_fsubprograms = <<>>
  /\ f_fdecl = <<>>
  /\ d_overloads = <<>>
  /\ w_hist = <<>>
  /\ cplusplus \in BOOLEAN
  /\ ClassIdle
  /\ ReleaseIdle
  /\ DeclIdle

\* classHandler(n) is entered: the bases are examined and the type opened
ClassBegin ==
  /\ phase = "class" /\ ~assert_failed /\ cur_class = <<>> /\ Visits < MaxVisits
  /\ \E id \in {Len(c_hist) + 1} : \E c \in ClassDescriptors(id) :
     \E r \in {classHandler_open(c, id, cplusplus)} :
       /\ c_hist' = Append(c_hist, [id |-> id, c |-> c, ret |-> r.ret,
                                    warnings |-> r.warnings, errors |-> r.errors])
       /\ IF r.ret = "SWIG_NOWRAP"
          THEN UNCHANGED <<cur_class, f_class, f_policies, d_method_overloads,
                           d_constructors>>
          ELSE /\ cur_class' = <<[id |-> id, c |-> c,
                                 appended |-> add_assignment_operator(c)]>>
               /\ f_class' = <<r.f_class>>
               /\ f_policies' = f_policies \o r.f_policies
               /\ d_method_overloads' = IF c.bindc THEN d_method_overloads ELSE << <<>> >>
               /\ d_constructors' = IF c.bindc THEN d_constructors ELSE << <<>> >>
  /\ UNCHANGED <<releaseVars, declVars>>
  /\ UNCHANGED <<phase, ndebug, mangleVars, assert_failed, registryVars, outputVars,
                 cplusplus>>

\* memberfunctionHandler(n) or staticmemberfunctionHandler(n)
VisitMemberFunction ==
  /\ phase = "class" /\ ~assert_failed /\ cur_class # <<>> /\ Visits < MaxVisits
  /\ \E m \in MemberDescriptors, id \in {Len(w_hist) + 1} :
       /\ m.kind \in {"memberfunction", "staticmemberfunction"}
       /\ IF is_bindc_struct
          THEN /\ w_hist' = Append(w_hist,
                    [id |-> id, n |-> m, names |-> WrapperNames(m),
                     ret |-> "SWIG_NOWRAP", stage |-> "handler", diags |-> <<"error">>,
                     cls |-> cur_class[1].id])
               /\ UNCHANGED <<symtab, f_wrapper, f_finterfaces, f_fsubprograms,
                              f_fdecl, d_overloads, f_class, d_method_overloads>>
          ELSE \E n \in {memberfunctionHandler(m, cur_class[1].c)} :
               \E r \in {functionWrapper(symtab, n, id, ClassContext)} :
               \E after \in {ClassAfterWrap(r)} :
                 /\ (ndebug \/ functionWrapper_assert(n))
                 /\ ApplyWrap(r, n, id)
                 /\ f_class' = after.f_class
                 /\ d_method_overloads' = after.d_method_overloads
  /\ UNCHANGED <<releaseVars, declVars>>
  /\ UNCHANGED <<phase, ndebug, mangleVars, assert_failed, sym_name, r_hist,
                 cplusplus, cur_class, f_policies, d_constructors, c_hist>>

\* constructorHandler(n): the constructor is wrapped as a private procedure
\* and its name appended to d_constructors; appending to a NULL list is
\* undefined, the process dies or goes on
VisitConstructor ==
  /\ phase = "class" /\ ~assert_failed /\ cur_class # <<>> /\ Visits < MaxVisits
  /\ \E m \in MemberDescriptors, id \in {Len(w_hist) + 1} :
     \E n \in {constructorHandler([m EXCEPT !.symname = cur_class[1].c.sym_name,
                                            !.name = cur_class[1].c.sym_name],
                                  cur_class[1].c)} :
     \E r \in {functionWrapper(symtab, n, id, ClassContext)} :
       /\ m.kind = "constructor"
       /\ (ndebug \/ functionWrapper_assert(n))
       /\ ApplyWrap(r, n, id)
       /\ IF d_constructors # <<>>
          THEN /\ d_constructors' =
                    IF r.stage \in {"imname", "fname"} THEN d_constructors
                    ELSE <<Append(d_constructors[1], WrapperNames(n).fname)>>
               /\ assert_failed' = FALSE
          ELSE /\ d_constructors' = d_constructors
               /\ assert_failed' \in BOOLEAN
  /\ UNCHANGED <<releaseVars, declVars>>
  /\ UNCHANGED <<phase, ndebug, mangleVars, sym_name, r_hist,
                 cplusplus, cur_class, f_class, f_policies, d_method_overloads, c_hist>>

\* destructorHandler(n): the destructor is wrapped as the member 'release';
\* in a struct bound to C the assertion of functionWrapper fails after the
\* stages have run
VisitDestructor ==
  /\ phase = "class" /\ ~assert_failed /\ cur_class # <<>> /\ Visits < MaxVisits
  /\ \E m \in MemberDescriptors, id \in {Len(w_hist) + 1} :
     \E n \in {destructorHandler([m EXCEPT !.symname = cur_class[1].c.sym_name,
                                           !.name = cur_class[1].c.sym_name],
                                 cur_class[1].c)} :
     \E r \in {functionWrapper(symtab, n, id, ClassContext)} :
     \E after \in {ClassAfterWrap(r)} :
       /\ m.kind = "destructor"
       /\ (ndebug \/ functionWrapper_assert(n))
       /\ ApplyWrap(r, n, id)
       /\ IF r.ret = "SWIG_OK" /\ ~ndebug
             /\ ~functionWrapper_assert_member(n, WrapperNames(n), ClassContext)
          THEN /\ assert_failed' = TRUE
               /\ UNCHANGED <<f_class, d_method_overloads>>
          ELSE /\ assert_failed' = FALSE
               /\ f_class' = after.f_class
               /\ d_method_overloads' = after.d_method_overloads
  /\ UNCHANGED <<releaseVars, declVars>>
  /\ UNCHANGED <<phase, ndebug, mangleVars, sym_name, r_hist,
                 cplusplus, cur_class, f_policies, d_constructors, c_hist>>

\* the end of classHandler(n): the generic lines of the overloaded members
\* (a Hash is iterated in no specified order: a set), 'end type', the type
\* moved to the declarations, and the constructor interface
classHandler_close(c, id, fc, mo, dc) ==
  [f_fdecl |->
     <<[op |-> 0, stage |-> "type", cls |-> id, name |-> c.fortran_name,
        text |-> fc,
        generics |-> IF c.bindc \/ mo = <<>> THEN {}
                     ELSE {[generic |-> k, procedures |-> mo[1][k]] :
                             k \in DOMAIN mo[1]}]>>
     \o (IF dc # <<>> /\ Len(dc[1]) > 0
         THEN <<[op |-> 0, stage |-> "constructors", cls |-> id,
                 name |-> c.fortran_name, procedures |-> dc[1]]>>
         ELSE <<>>),
   d_constructors |-> IF dc # <<>> /\ Len(dc[1]) > 0 THEN <<>> ELSE dc]

\* classHandler(n) of a class that is not bound to C, from the last child
\* on: the assignment operator add_assignment_operator appended is wrapped
\* as a member function, then the type is closed
ClassEnd ==
  /\ phase \in {"class", "decl"} /\ ~assert_failed /\ cur_class # <<>>
  /\ ~cur_class[1].c.bindc
  /\ \E c \in {cur_class[1].c}, id \in {Len(w_hist) + 1} :
     \E n \in {memberfunctionHandler(cur_class[1].appended[1], c)} :
     \E r \in {functionWrapper(symtab, n, id, ClassContext)} :
     \E after \in {ClassAfterWrap(r)} :
     \E cl \in {classHandler_close(c, cur_class[1].id, after.f_class[1],
                                   after.d_method_overloads, d_constructors)} :
       /\ (ndebug \/ functionWrapper_assert(n))
       /\ symtab' = r.symtab
       /\ f_wrapper' = f_wrapper \o r.f_wrapper
       /\ f_finterfaces' = f_finterfaces \o r.f_finterfaces
       /\ f_fsubprograms' = f_fsubprograms \o r.f_fsubprograms
       /\ f_fdecl' = f_fdecl \o r.f_fdecl \o cl.f_fdecl
       /\ d_overloads' = IF r.overload = <<>> THEN d_overloads
                         ELSE AppendOverload(d_overloads, r.overload[1][1],
                                             r.overload[1][2])
       /\ w_hist' = Append(w_hist,
            [id |-> id, n |-> n, names |-> WrapperNames(n), ret |-> r.ret,
             stage |-> r.stage, diags |-> r.diags, cls |-> cur_class[1].id])
       /\ d_constructors' = cl.d_constructors
  /\ f_class' = <<>>
  /\ d_method_overloads' = <<>>
  /\ cur_class' = <<>>
  /\ UNCHANGED <<releaseVars, declVars>>
  /\ UNCHANGED <<phase, ndebug, mangleVars, assert_failed, sym_name, r_hist,
                 cplusplus, f_policies, c_hist>>

\* classHandler(n) of a struct bound to C, from the last child on
ClassEndBindc ==
  /\ phase = "class" /\ ~assert_failed /\ cur_class # <<>>
  /\ cur_class[1].c.bindc
  /\ \E cl \in {classHandler_close(cur_class[1].c, cur_class[1].id, f_class[1],
                                   d_method_overloads, d_constructors)} :
       /\ f_fdecl' = f_fdecl \o cl.f_fdecl
       /\ d_constructors' = cl.d_constructors
  /\ f_class' = <<>>
  /\ d_method_overloads' = <<>>
  /\ cur_class' = <<>>
  /\ UNCHANGED <<releaseVars, declVars>>
  /\ UNCHANGED <<phase, ndebug, mangleVars, assert_failed, registryVars,
                 f_wrapper, f_finterfaces, f_fsubprograms, d_overloads, w_hist,
                 cplusplus, f_policies, c_hist>>

NextClass ==
  \/ ClassBegin
  \/ VisitMemberFunction
  \/ VisitConstructor
  \/ VisitDestructor
  \/ ClassEnd
  \/ ClassEndBindc

SpecClass == InitClass /\ [][NextClass]_vars

(***************************************************************************)
(* The generated 'release' procedure at run time.                          *)
(*                                                                         *)
(* A handle is the swigdata of an instance of a generated type: cptr (0 is *)
(* C_NULL_PTR, otherwise the number of a C++ object) and the bit mask      *)
(* cmemflags.  epoch counts the times the instance was given an object.    *)
(* The proxy of the destructor runs the shadow text destructorHandler set, *)
(* with $action replaced by the call of the C wrapper of the destructor.   *)
(***************************************************************************)
MaxObjects == 2

MaxReleases == 3

Handles == {"v", "view"}

\* swig_cmem_own_bit: the bit of cmemflags that says the handle owns
swig_cmem_own_bit == 0

\* the values cmemflags takes: the ownership bit and one further bit
FlagValues == 0..3

\* btest(i, pos) of Fortran
btest(i, pos) == (i \div (2 ^ pos)) % 2 = 1

\* an instance that was never constructed
NullHandle == [cptr |-> 0, cmemflags |-> 0, epoch |-> 0]

\* the actual argument of the proxy: farg1 is the swigdata of self
DESTRUCTOR_SELF_in(self) == [cptr |-> self.cptr, cmemflags |-> self.cmemflags]

\* after the proxy body the swigdata of self is what farg1 holds
DESTRUCTOR_SELF_out(self, farg1) ==
  [self EXCEPT !.cptr = farg1.cptr, !.cmemflags = farg1.cmemflags]

\* the lines of a shadow text executed in order on st = [farg1, taken,
\* actions]: taken is the value of the condition of the enclosing 'if',
\* actions the number of times $action ran
RECURSIVE ExecShadow(_, _)
ExecShadow(lines, st) ==
  IF lines = <<>> THEN st
  ELSE ExecShadow(Tail(lines),
         IF Head(lines) = "if (btest(farg1%cmemflags, swig_cmem_own_bit)) then"
         THEN [st EXCEPT !.taken = btest(st.farg1.cmemflags, swig_cmem_own_bit)]
         ELSE IF Head(lines) = "endif" THEN [st EXCEPT !.taken = TRUE]
         ELSE IF ~st.taken THEN st
         ELSE IF Head(lines) = "$action" THEN [st EXCEPT !.actions = @ + 1]
         ELSE IF Head(lines) = "farg1%cptr = C_NULL_PTR"
         THEN [st EXCEPT !.farg1.cptr = 0]
         ELSE IF Head(lines) = "farg1%cmemflags = 0"
         THEN [st EXCEPT !.farg1.cmemflags = 0]
         ELSE st)

\* the instances are declared: their swigdata is null with flags zero
InitRelease ==
  /\ phase = "release"
  /\ ndebug = FALSE
  /\ m_in = <<>>
  /\ m_out = <<>>
  /\ m_out2 = <<>>
  /\ m_pc = "idle"
  /\ assert_failed = FALSE
  /\ symtab = <<>>
  /\ sym_name = <<>>
  /\ r_hist = <<>>
  /\ f_wrapper = <<>>
  /\ f_finterfaces = <<>>
  /\ f_fsubprograms = <<>>
  /\ f_fdecl = <<>>
  /\ d_overloads = <<>>
  /\ w_hist = <<>>
  /\ cplusplus = TRUE
  /\ ClassIdle
  /\ rel_handles = [h \in Handles |-> NullHandle]
  /\ rel_next = 1
  /\ rel_hist = <<>>
  /\ DeclIdle

\* call v%create(): a null instance is given a new object it owns
RelCreate ==
  /\ phase = "release" /\ rel_next <= MaxObjects
  /\ \E h \in Handles :
       /\ rel_handles[h].cptr = 0
       /\ rel_handles' = [rel_handles EXCEPT ![h] =
            [cptr |-> rel_next, cmemflags |-> 2 ^ swig_cmem_own_bit,
             epoch |-> rel_handles[h].epoch + 1]]
  /\ rel_next' = rel_next + 1
  /\ UNCHANGED declVars
  /\ UNCHANGED <<phase, ndebug, mangleVars, assert_failed, registryVars, outputVars,
                 classVars, rel_hist>>

\* a null instance is made to refer to the object of another instance
\* without owning it
RelView ==
  /\ phase = "release"
  /\ \E h \in Handles, g \in Handles, f \in FlagValues :
       /\ h # g /\ rel_handles[h].cptr # 0 /\ rel_handles[g].cptr = 0
       /\ rel_handles[g].epoch < MaxObjects
       /\ ~btest(f, swig_cmem_own_bit)
       /\ rel_handles' = [rel_handles EXCEPT ![g] =
            [cptr |-> rel_handles[h].cptr, cmemflags |-> f,
             epoch |-> rel_handles[g].epoch + 1]]
  /\ UNCHANGED declVars
  /\ UNCHANGED <<phase, ndebug, mangleVars, assert_failed, registryVars, outputVars,
                 classVars, rel_next, rel_hist>>

\* call h%release(): the proxy of the destructor
RelRelease ==
  /\ phase = "release" /\ Len(rel_hist) < MaxReleases
  /\ \E h \in Handles :
     \E st \in {ExecShadow(release_shadow,
                           [farg1 |-> DESTRUCTOR_SELF_in(rel_handles[h]),
                            taken |-> TRUE, actions |-> 0])} :
       /\ rel_handles' = [rel_handles EXCEPT ![h] = DESTRUCTOR_SELF_out(@, st.farg1)]
       /\ rel_hist' = Append(rel_hist,
            [h |-> h, epoch |-> rel_handles[h].epoch,
             before |-> DESTRUCTOR_SELF_in(rel_handles[h]),
             after |-> st.farg1, actions |-> st.actions])
  /\ UNCHANGED declVars
  /\ UNCHANGED <<phase, ndebug, mangleVars, assert_failed, registryVars, outputVars,
                 classVars, rel_next>>

NextRelease == RelCreate \/ RelView \/ RelRelease

SpecRelease == InitRelease /\ [][NextRelease]_vars

(***************************************************************************)
(* Enumerations: is_native_enum, enumDeclaration and constantWrapper on    *)
(* the members.                                                            *)
(*                                                                         *)
(* An enumeration n is a record of the attributes enumDeclaration reads;   *)
(* n.members is the list of its children.  The module is the one being     *)
(* generated (ImportMode is off).                                          *)
(***************************************************************************)
MaxEnums == 2

Str_unnamed == <<36, 117, 110, 110, 97, 109, 101, 100>>   \* "$unnamed"
Str_Color == <<67, 111, 108, 111, 114>>                   \* "Color"
Str_v0 == <<48>>                                          \* "0"
Str_v1 == <<49>>                                          \* "1"
Str_v2 == <<50>>                                          \* "2"
Str_vneg2 == <<45, 50>>                                   \* "-2"
Str_v010 == <<48, 49, 48>>                                \* "010"
Str_vshift == <<49, 60, 60, 51>>                          \* "1<<3"
Str_C_INT == <<67, 95, 73, 78, 84>>                       \* "C_INT"

\* is_native_enum with the test of the initializers left out
is_native_enum_novalues(n) ==
  IF n.feature_const = NullStr
  THEN \A i \in 1..Len(n.members) : ~(n.members[i].error \/ n.members[i].ignore)
  ELSE n.feature_const # Str_v0

\* is_fortran_intexpr(s): an optional '-', then digits only, no leading 0
\* before further characters
is_fortran_intexpr(s) ==
  IF s = <<>> THEN FALSE
  ELSE \E body \in {IF s[1] = 45 THEN Tail(s) ELSE s} :
         IF body = <<>> THEN TRUE
         ELSE IF body[1] = 48 /\ Len(body) > 1 THEN FALSE
         ELSE \A i \in 1..Len(body) : IsDigitChar(body[i])

\* is_native_enum(n)
is_native_enum(n) ==
  IF n.feature_const = NullStr
  THEN \A i \in 1..Len(n.members) :
         /\ ~(n.members[i].error \/ n.members[i].ignore)
         /\ n.members[i].enumvalue # NullStr => is_fortran_intexpr(n.members[i].enumvalue)
  ELSE n.feature_const # Str_v0

\* Strstr(s, "$unnamed") != NULL
HasUnnamed(s) ==
  \E i \in 1..Len(s) :
    i + Len(Str_unnamed) - 1 <= Len(s)
    /\ SubSeq(s, i, i + Len(Str_unnamed) - 1) = Str_unnamed

\* the children the traversal hands to enumvalueDeclaration: a child
\* marked ignored or erroneous is not visited
emit_children(members) ==
  SelectIdx([i \in 1..Len(members) |-> ~(members[i].error \/ members[i].ignore)])

\* constantWrapper on the visited members in order: each gets a unique
\* name and becomes an enumerator of the open group (group TRUE) or a
\* constant of its own
RECURSIVE EnumItems(_, _, _, _, _, _)
EnumItems(st, members, visit, group, id, acc) ==
  IF visit = <<>> THEN [symtab |-> st, items |-> acc]
  ELSE LET u == make_unique_symname(st, members[Head(visit)].symname, id)
       IN EnumItems(u.symtab, members, Tail(visit), group, id,
                   Append(acc,
                     [op |-> id, stage |-> IF group THEN "enumerator" ELSE "constant",
                      name |-> u.ret,
                      value |-> IF group THEN members[Head(visit)].enumvalue
                                ELSE NullStr]))

\* the name enumDeclaration gives the enumeration and the scope afterwards
\* (enum_name is NullStr for an anonymous one)
enumDeclaration_name(st, n, id) ==
  IF n.symname = NullStr \/ HasUnnamed(n.symname)
  THEN [ret |-> "SWIG_OK", enum_name |-> NullStr, symtab |-> st]
  ELSE IF cur_class # <<>>
  THEN LET nm == make_fname(cur_class[1].c.sym_name \o <<95>> \o n.symname)
            r == add_fsymbol(st, nm, id, "WARN_FORTRAN_NAME_CONFLICT")
       IN [ret |-> r.ret, enum_name |-> nm, symtab |-> r.symtab]
  ELSE IF n.fortran_name # NullStr
  THEN [ret |-> "SWIG_OK", enum_name |-> n.fortran_name, symtab |-> st]
  ELSE LET nm == make_fname(n.symname)
            r == add_fsymbol(st, nm, id, "WARN_FORTRAN_NAME_CONFLICT")
       IN [ret |-> r.ret, enum_name |-> nm, symtab |-> r.symtab]

\* the text enumDeclaration prints after the members, given the names in
\* d_enum_public (the enumerators) when a group is open
enumDeclaration_close(id, group, enum_name, public) ==
  IF group
  THEN <<[op |-> id, stage |-> "end enum"]>>
       \o (IF enum_name # NullStr
           THEN <<[op |-> id, stage |-> "kind", name |-> enum_name,
                   of |-> IF public = <<>> THEN NullStr ELSE public[1]]>>
           ELSE <<>>)
       \o <<[op |-> id, stage |-> "public", names |-> public]>>
  ELSE IF enum_name # NullStr
  THEN <<[op |-> id, stage |-> "kind", name |-> enum_name, of |-> Str_C_INT]>>
  ELSE <<>>

\* enumDeclaration(n) from the comment line on, nm being the name given
\* and it the result of the traversal of the members
enumDeclaration_print(n, id, group, nm, it) ==
  [ret |-> "SWIG_OK", symtab |-> it.symtab,
   f_fdecl |->
     (IF n.name # NullStr THEN <<[op |-> id, stage |-> "comment"]>> ELSE <<>>)
     \o (IF group THEN <<[op |-> id, stage |-> "enum"]>> ELSE <<>>)
     \o it.items
     \o enumDeclaration_close(id, group, nm.enum_name,
                              [q \in 1..Len(it.items) |-> it.items[q].name]),
   group |-> group,
   asserted |-> (group => Len(it.items) > 0)]

\* enumDeclaration(n) once the name is given
enumDeclaration_named(n, id, group, nm) ==
  IF nm.ret = "SWIG_NOWRAP"
  THEN [ret |-> "SWIG_NOWRAP", symtab |-> nm.symtab, f_fdecl |-> <<>>,
        group |-> FALSE, asserted |-> TRUE]
  ELSE enumDeclaration_print(n, id, group, nm,
         EnumItems(nm.symtab, n.members, emit_children(n.members), group, id, <<>>))

\* enumDeclaration(n) on the scope st: the value returned, the scope, the
\* text added to f_fdecl, whether an enumerator group was opened, and
\* whether the assertion on d_enum_public holds
enumDeclaration(st, n, id, group) ==
  IF n.access # "public" \/ n.weak
  THEN [ret |-> "SWIG_NOWRAP", symtab |-> st, f_fdecl |-> <<>>, group |-> FALSE,
        asserted |-> TRUE]
  ELSE enumDeclaration_named(n, id, group, enumDeclaration_name(st, n, id))

\* a child of an enumeration
EnumMember(symname, enumvalue) ==
  [symname |-> symname, enumvalue |-> enumvalue, error |-> FALSE, ignore |-> FALSE]

EnumMemberLists ==
  { <<>>,
    <<EnumMember(Str_A, Str_v0), EnumMember(Str_B, Str_v1), EnumMember(Str_C, Str_v2)>>,
    <<EnumMember(Str_A, NullStr), EnumMember(Str_B, NullStr)>>,
    <<EnumMember(Str_A, Str_vshift)>>,
    <<EnumMember(Str_A, Str_v1), EnumMember(Str_B, Str_vshift)>>,
    <<EnumMember(Str_A, Str_v010)>>,
    <<EnumMember(Str_A, Str_vneg2), EnumMember(Str_B, NullStr)>>,
    <<EnumMember(Str_A, Str_v1), [EnumMember(Str_B, Str_v2) EXCEPT !.ignore = TRUE]>>,
    <<[EnumMember(Str_A, Str_v1) EXCEPT !.error = TRUE]>> }

\* a public enumeration that is no forward declaration
BaseEnum(name, members, feature) ==
  [name |-> name, symname |-> name, fortran_name |-> NullStr, access |-> "public",
   weak |-> FALSE, feature_const |-> feature, members |-> members]

\* the enumerations the traversal may visit as its i-th enumeration
EnumDescriptors(i) ==
  IF i = 1
  THEN {BaseEnum(nm, ml, ft) : nm \in {NullStr, Str_Color}, ml \in EnumMemberLists,
                               ft \in {NullStr, Str_v0, Str_v1}}
       \cup {[BaseEnum(Str_Color, <<EnumMember(Str_A, Str_v0)>>, NullStr)
                EXCEPT !.access = "private"],
             [BaseEnum(Str_Color, <<EnumMember(Str_A, Str_v0)>>, NullStr)
                EXCEPT !.weak = TRUE]}
  ELSE {BaseEnum(Str_Color, <<EnumMember(Str_A, v)>>, NullStr) : v \in {Str_v0, Str_vshift}}
       \cup {BaseEnum(Str_Foo, <<EnumMember(Str_B, NullStr)>>, Str_v1)}

\* the state after FORTRAN::top has made the output sections and
\* moduleDirective has registered the module name
InitEnum ==
  /\ phase = "enum"
  /\ ndebug \in BOOLEAN
  /\ m_in = <<>>
  /\ m_out = <<>>
  /\ m_out2 = <<>>
  /\ m_pc = "idle"
  /\ assert_failed = FALSE
  /\ symtab = Setattr(<<>>, Swig_string_lower(Str_thinvec), 0)
  /\ sym_name = <<>>
  /\ r_hist = <<>>
  /\ f_wrapper = <<>>
  /\ f_finterfaces = <<>>
  /\ f_fsubprograms = <<>>
  /\ f_fdecl = <<>>
  /\ d_overloads = <<>>
  /\ w_hist = <<>>
  /\ RestIdle

\* enumDeclaration(n) with the traversal of the members; a failed assertion
\* ends the process after the text before it was printed
EnumDeclare ==
  /\ phase = "enum" /\ ~assert_failed /\ Len(e_hist) < MaxEnums
  /\ \E id \in {Len(e_hist) + 1} : \E n \in EnumDescriptors(id) :
     \E r \in {enumDeclaration(symtab, n, id, is_native_enum(n) /\ n.members # <<>>)} :
       /\ symtab' = r.symtab
       /\ assert_failed' = (~ndebug /\ ~r.asserted)
       /\ f_fdecl' = f_fdecl \o (IF ~ndebug /\ ~r.asserted
                                 THEN SelectSeq(r.f_fdecl,
                                        LAMBDA x : x.stage \in {"comment", "enum"})
                                 ELSE r.f_fdecl)
       /\ e_hist' = Append(e_hist, [id |-> id, n |-> n, ret |-> r.ret, group |-> r.group])
  /\ UNCHANGED <<phase, ndebug, mangleVars, sym_name, r_hist, f_wrapper, f_finterfaces,
                 f_fsubprograms, d_overloads, w_hist, classVars, releaseVars,
                 d_mangled_type, t_hist, k_hist, decl_nodes, n_hist,
                 pureVars>>

NextEnum == EnumDeclare

SpecEnum == InitEnum /\ [][NextEnum]_vars

(***************************************************************************)
(* Placeholder substitution: get_fclassname and the cache d_mangled_type   *)
(* of the opaque bindings.                                                 *)
(***************************************************************************)
MaxSubst == 3

Str_SWIGTYPE == <<83, 87, 73, 71, 84, 89, 80, 69>>       \* "SWIGTYPE"
Str_enum_sp == <<101, 110, 117, 109, 32>>                 \* "enum "
Str_FOO == <<70, 79, 79>>                             \* "FOO"
Str_SWIGTYPE_Bar == <<83, 87, 73, 71, 84, 89, 80, 69, 95, 66, 97, 114>> \* "SWIGTYPE_Bar"

\* Replace(s, pat, "", DOH_REPLACE_ANY): s without the occurrences of pat
RECURSIVE RemoveAll(_, _)
RemoveAll(s, pat) ==
  IF Len(s) < Len(pat) THEN s
  ELSE IF SubSeq(s, 1, Len(pat)) = pat
  THEN RemoveAll(SubSeq(s, Len(pat) + 1, Len(s)), pat)
  ELSE <<Head(s)>> \o RemoveAll(Tail(s), pat)

\* SwigType_manglestr of a base type that is a plain identifier
SwigType_manglestr(basetype) == <<95>> \o basetype

\* the base types placeholders are substituted for
BaseTypes == {Str_Foo, Str_FOO, Str_Bar, Str_A, Str_Color}

\* classLookup(basetype): <<>> (NULL) or <<the class node>>; A is a
\* wrapped class
classLookup(basetype) ==
  IF basetype = Str_A
  THEN <<[fortran_name |-> NullStr, sym_name |-> Str_A, enumMissing |-> FALSE,
          declared |-> FALSE]>>
  ELSE <<>>

\* enumLookup(basetype): <<>> (NULL) or <<the enum node>>; Color is an
\* enumeration that is only declared forward
enumLookup(basetype) ==
  IF basetype = Str_Color
  THEN <<[fortran_name |-> NullStr, sym_name |-> Str_Color, enumMissing |-> TRUE,
          declared |-> FALSE]>>
  ELSE <<>>

\* the name get_fclassname takes from the node found (NullStr for none)
get_fclassname_node(node, is_enum) ==
  IF node = <<>> THEN NullStr
  ELSE IF is_enum /\ node[1].enumMissing THEN NullStr
  ELSE IF is_enum /\ ~node[1].declared THEN NullStr
  ELSE IF node[1].fortran_name # NullStr THEN node[1].fortran_name
  ELSE node[1].sym_name

\* get_fclassname when the cache has no entry: the name made, the binding
\* printed when the name could be registered, the entry made in any case
get_fclassname_new(st, cache, basetype, is_enum, id, made, reg) ==
  [ret |-> IF reg.ret # "SWIG_NOWRAP" /\ is_enum THEN RemoveAll(made, Str_enum_sp)
           ELSE made,
   symtab |-> reg.symtab,
   f_fdecl |->
     IF reg.ret = "SWIG_NOWRAP" THEN <<>>
     ELSE IF is_enum
     THEN <<[op |-> id, stage |-> "opaque", kind |-> "integer", basetype |-> basetype,
             name |-> RemoveAll(made, Str_enum_sp)]>>
     ELSE <<[op |-> id, stage |-> "opaque", kind |-> "type", basetype |-> basetype,
             name |-> made]>>,
   d_mangled_type |->
     Setattr(cache, basetype,
             IF reg.ret # "SWIG_NOWRAP" /\ is_enum THEN RemoveAll(made, Str_enum_sp)
             ELSE made),
   cached |-> TRUE, errors |-> reg.errors, warnings |-> reg.warnings]

\* get_fclassname when no node gave a name: the cache is consulted
get_fclassname_unnamed(st, cache, basetype, is_enum, id) ==
  IF basetype \in DOMAIN cache
  THEN [ret |-> cache[basetype], symtab |-> st, f_fdecl |-> <<>>,
        d_mangled_type |-> cache, cached |-> TRUE, errors |-> 0, warnings |-> 0]
  ELSE get_fclassname_new(st, cache, basetype, is_enum, id,
         make_fname(Str_SWIGTYPE \o SwigType_manglestr(basetype)),
         add_fsymbol(st, make_fname(Str_SWIGTYPE \o SwigType_manglestr(basetype)),
                     id, "WARN_FORTRAN_NAME_CONFLICT"))

\* get_fclassname once the node is looked up (<<>> when there is none)
get_fclassname_found(st, cache, node, basetype, is_enum, id) ==
  IF get_fclassname_node(node, is_enum) # NullStr
  THEN [ret |-> get_fclassname_node(node, is_enum),
        symtab |-> st, f_fdecl |-> <<>>, d_mangled_type |-> cache,
        cached |-> FALSE, errors |-> 0, warnings |-> 0]
  ELSE get_fclassname_unnamed(st, cache, basetype, is_enum, id)

\* get_fclassname(basetype, is_enum) on the scope st and the cache, the node
\* being the one enumLookup or classLookup finds
get_fclassname(st, cache, basetype, is_enum, id) ==
  get_fclassname_found(st, cache,
                       IF is_enum THEN enumLookup(basetype) ELSE classLookup(basetype),
                       basetype, is_enum, id)

\* the constants the traversal may wrap before a placeholder is substituted
UserConstants == {Str_SWIGTYPE_Bar, Str_foo}

\* the state after FORTRAN::top has made the output sections and the cache
\* and moduleDirective has registered the module name
InitTypes ==
  /\ phase = "types"
  /\ ndebug = FALSE
  /\ m_in = <<>>
  /\ m_out = <<>>
  /\ m_out2 = <<>>
  /\ m_pc = "idle"
  /\ assert_failed = FALSE
  /\ symtab = Setattr(<<>>, Swig_string_lower(Str_thinvec), 0)
  /\ sym_name = <<>>
  /\ r_hist = <<>>
  /\ f_wrapper = <<>>
  /\ f_finterfaces = <<>>
  /\ f_fsubprograms = <<>>
  /\ f_fdecl = <<>>
  /\ d_overloads = <<>>
  /\ w_hist = <<>>
  /\ RestIdle

\* constantWrapper registers the name of a constant: make_unique_symname
TypeConstant ==
  /\ phase = "types"
  /\ \E name \in UserConstants :
       /\ Swig_string_lower(name) \notin DOMAIN symtab
       /\ symtab' = make_unique_symname(symtab, name, 0).symtab
  /\ UNCHANGED <<phase, ndebug, mangleVars, assert_failed, sym_name, r_hist, outputVars,
                 classVars, releaseVars, declVars>>

\* replace_fclassname calls get_fclassname(basetype, is_enum)
TypeSubstitute ==
  /\ phase = "types" /\ Len(t_hist) < MaxSubst
  /\ \E basetype \in BaseTypes, is_enum \in BOOLEAN, id \in {Len(t_hist) + 1} :
     \E r \in {get_fclassname(symtab, d_mangled_type, basetype, is_enum, id)} :
       /\ symtab' = r.symtab
       /\ f_fdecl' = f_fdecl \o r.f_fdecl
       /\ d_mangled_type' = r.d_mangled_type
       /\ t_hist' = Append(t_hist,
            [id |-> id, basetype |-> basetype, is_enum |-> is_enum, ret |-> r.ret,
             cached |-> r.cached, warnings |-> r.warnings])
  /\ UNCHANGED <<phase, ndebug, mangleVars, assert_failed, sym_name, r_hist, f_wrapper,
                 f_finterfaces, f_fsubprograms, d_overloads, w_hist,
                 classVars, releaseVars, e_hist, k_hist, decl_nodes, n_hist,
                 pureVars>>

NextTypes == TypeConstant \/ TypeSubstitute

SpecTypes == InitTypes /\ [][NextTypes]_vars

(***************************************************************************)
(* The names of classes and enumerations: classforwardDeclaration,         *)
(* classDeclaration, enumforwardDeclaration, enumDeclaration and the       *)
(* substitution of $fclassname and $fenumname for one class and one        *)
(* enumeration, which is declared in the class or at module level.         *)
(***************************************************************************)
MaxDecls == 4

Str_uColor == <<95, 67, 111, 108, 111, 114>>              \* "_Color"

\* the node a declaration is registered under
DeclNode(d) == IF d = "class" THEN 101 ELSE 102

\* the forward declaration handlers: the definition gets its fortran:name
\* from make_unique_symname unless it has one
forwardDeclaration(st, node, owner) ==
  IF node.fortran_name = NullStr /\ node.sym_name # NullStr
  THEN [symtab |-> make_unique_symname(st, node.sym_name, owner).symtab,
        node |-> [node EXCEPT
                    !.fortran_name = make_unique_symname(st, node.sym_name, owner).ret,
                    !.sym_name = make_unique_symname(st, node.sym_name, owner).sym_name]]
  ELSE [symtab |-> st, node |-> node]

\* classDeclaration gives the name as the forward declaration would
classDeclaration(st, node, owner) == forwardDeclaration(st, node, owner)

\* the state after FORTRAN::top has made the output sections, the parser
\* has made the nodes and moduleDirective has registered the module name
InitDecl ==
  /\ phase = "decl"
  /\ ndebug = FALSE
  /\ m_in = <<>>
  /\ m_out = <<>>
  /\ m_out2 = <<>>
  /\ m_pc = "idle"
  /\ assert_failed = FALSE
  /\ symtab = Setattr(<<>>, Swig_string_lower(Str_thinvec), 0)
  /\ sym_name = <<>>
  /\ r_hist = <<>>
  /\ f_wrapper = <<>>
  /\ f_finterfaces = <<>>
  /\ f_fsubprograms = <<>>
  /\ f_fdecl = <<>>
  /\ d_overloads = <<>>
  /\ w_hist = <<>>
  /\ cplusplus = TRUE
  /\ ClassIdle
  /\ ReleaseIdle
  /\ e_hist = <<>>
  /\ d_mangled_type = <<>>
  /\ t_hist = <<>>
  /\ k_hist = <<>>
  /\ n_hist = <<>>
  /\ PureIdle
  /\ \E nm \in {Str_Color, Str_uColor}, inside \in BOOLEAN :
       decl_nodes =
         [d \in {"class", "enum"} |->
            [sym_name |-> IF d = "class" THEN Str_Foo ELSE nm,
             fortran_name |-> NullStr, enumMissing |-> FALSE, declared |-> FALSE,
             defined |-> FALSE, in_class |-> (d = "enum" /\ inside)]]

\* classforwardDeclaration(n) for a forward declaration of the class
DeclClassForward ==
  /\ phase = "decl" /\ Len(n_hist) < MaxDecls
  /\ ~decl_nodes["class"].defined
  /\ \E r \in {forwardDeclaration(symtab, decl_nodes["class"], DeclNode("class"))} :
       /\ symtab' = r.symtab
       /\ decl_nodes' = [decl_nodes EXCEPT !["class"] = r.node]
       /\ n_hist' = Append(n_hist, [op |-> "classforwardDeclaration", node |-> "class",
                                    name |-> r.node.fortran_name])
  /\ UNCHANGED <<phase, ndebug, mangleVars, assert_failed, sym_name, r_hist, outputVars,
                 classVars, releaseVars, e_hist, d_mangled_type, t_hist, k_hist,
                 pureVars>>

\* classDeclaration(n) of the definition of the class, up to the traversal
\* of its members in classHandler
DeclClassBegin ==
  /\ phase = "decl" /\ Len(n_hist) < MaxDecls
  /\ ~decl_nodes["class"].defined /\ cur_class = <<>>
  /\ \E r \in {classDeclaration(symtab, decl_nodes["class"], DeclNode("class"))} :
     \E c \in {[name |-> Str_Foo, sym_name |-> r.node.sym_name,
                fortran_name |-> r.node.fortran_name, bases |-> <<>>,
                bindc |-> FALSE]} :
     \E o \in {classHandler_open(c, Len(c_hist) + 1, cplusplus)} :
       /\ symtab' = r.symtab
       /\ decl_nodes' = [decl_nodes EXCEPT !["class"] = [r.node EXCEPT !.defined = TRUE]]
       /\ c_hist' = Append(c_hist, [id |-> Len(c_hist) + 1, c |-> c, ret |-> o.ret,
                                    warnings |-> o.warnings, errors |-> o.errors])
       /\ cur_class' = <<[id |-> Len(c_hist) + 1, c |-> c,
                         appended |-> add_assignment_operator(c)]>>
       /\ f_class' = <<o.f_class>>
       /\ f_policies' = f_policies \o o.f_policies
       /\ d_method_overloads' = << <<>> >>
       /\ d_constructors' = << <<>> >>
       /\ n_hist' = Append(n_hist, [op |-> "classDeclaration", node |-> "class",
                                    name |-> o.f_class[1].name])
  /\ UNCHANGED <<phase, ndebug, mangleVars, assert_failed, sym_name, r_hist, outputVars,
                 cplusplus, releaseVars, e_hist, d_mangled_type, t_hist, k_hist,
                 pureVars>>

\* where the traversal is when it meets a declaration of the enumeration
AtEnumScope == decl_nodes["enum"].in_class = (cur_class # <<>>)

\* enumforwardDeclaration(n) for a forward declaration of the enumeration
DeclEnumForward ==
  /\ phase = "decl" /\ Len(n_hist) < MaxDecls
  /\ ~decl_nodes["enum"].defined /\ AtEnumScope
  /\ \E r \in {forwardDeclaration(symtab, decl_nodes["enum"], DeclNode("enum"))} :
       /\ symtab' = r.symtab
       /\ decl_nodes' = [decl_nodes EXCEPT !["enum"] = r.node]
       /\ n_hist' = Append(n_hist, [op |-> "enumforwardDeclaration", node |-> "enum",
                                    name |-> r.node.fortran_name])
  /\ UNCHANGED <<phase, ndebug, mangleVars, assert_failed, sym_name, r_hist, outputVars,
                 classVars, releaseVars, e_hist, d_mangled_type, t_hist, k_hist,
                 pureVars>>

\* the enumeration as enumDeclaration reads it from its node
EnumOfNode(node) ==
  [BaseEnum(node.sym_name, <<EnumMember(Str_A, Str_v0)>>, NullStr)
     EXCEPT !.fortran_name = node.fortran_name]

\* enumDeclaration(n) of the definition of the enumeration
DeclEnum ==
  /\ phase = "decl" /\ Len(n_hist) < MaxDecls
  /\ ~decl_nodes["enum"].defined /\ AtEnumScope
  /\ \E n \in {EnumOfNode(decl_nodes["enum"])} :
     \E nm \in {enumDeclaration_name(symtab, n, DeclNode("enum"))} :
     \E r \in {enumDeclaration(symtab, n, DeclNode("enum"), is_native_enum(n) /\ n.members # <<>>)} :
       /\ symtab' = r.symtab
       /\ f_fdecl' = f_fdecl \o r.f_fdecl
       /\ decl_nodes' =
            [decl_nodes EXCEPT
               !["enum"].defined = TRUE,
               !["enum"].fortran_name = IF cur_class # <<>> THEN nm.enum_name ELSE @,
               !["enum"].declared =
                 (r.ret = "SWIG_OK" /\ (r.group \/ nm.enum_name # NullStr))]
       /\ n_hist' = Append(n_hist, [op |-> "enumDeclaration", node |-> "enum",
                                    name |-> IF r.ret = "SWIG_OK" THEN nm.enum_name
                                             ELSE NullStr])
  /\ UNCHANGED <<phase, ndebug, mangleVars, assert_failed, sym_name, r_hist, f_wrapper,
                 f_finterfaces, f_fsubprograms, d_overloads, w_hist,
                 classVars, releaseVars, e_hist, d_mangled_type, t_hist, k_hist,
                 pureVars>>

\* replace_fclassname on a typemap that names the class or the enumeration
DeclSubstitute ==
  /\ phase = "decl" /\ Len(n_hist) < MaxDecls
  /\ \E d \in {"class", "enum"} :
     \E r \in {get_fclassname_found(symtab, d_mangled_type, <<decl_nodes[d]>>,
                                    decl_nodes[d].sym_name, d = "enum",
                                    200 + Len(n_hist))} :
       /\ symtab' = r.symtab
       /\ f_fdecl' = f_fdecl \o r.f_fdecl
       /\ d_mangled_type' = r.d_mangled_type
       /\ n_hist' = Append(n_hist, [op |-> "get_fclassname", node |-> d, name |-> r.ret])
  /\ UNCHANGED <<phase, ndebug, mangleVars, assert_failed, sym_name, r_hist, f_wrapper,
                 f_finterfaces, f_fsubprograms, d_overloads, w_hist,
                 classVars, releaseVars, e_hist, t_hist, k_hist, decl_nodes,
                 pureVars>>

NextDecl ==
  \/ DeclClassForward
  \/ DeclClassBegin
  \/ ClassEnd
  \/ DeclEnumForward
  \/ DeclEnum
  \/ DeclSubstitute

SpecDecl == InitDecl /\ [][NextDecl]_vars

(***************************************************************************)
(* is_fortran_intexpr on the strings over a small alphabet.                *)
(***************************************************************************)
MaxExprLen == 3

\* '-', '0', '1', '9', '+', ' ' and 'A'
IntexprChars == {45, 48, 49, 57, 43, 32, 65}

InitIntexpr ==
  /\ phase = "intexpr"
  /\ ndebug = FALSE
  /\ m_in = <<>>
  /\ m_out = <<>>
  /\ m_out2 = <<>>
  /\ m_pc = "idle"
  /\ assert_failed = FALSE
  /\ symtab = <<>>
  /\ sym_name = <<>>
  /\ r_hist = <<>>
  /\ f_wrapper = <<>>
  /\ f_finterfaces = <<>>
  /\ f_fsubprograms = <<>>
  /\ f_fdecl = <<>>
  /\ d_overloads = <<>>
  /\ w_hist = <<>>
  /\ cplusplus = TRUE
  /\ ClassIdle
  /\ ReleaseIdle
  /\ e_hist = <<>>
  /\ d_mangled_type = <<>>
  /\ t_hist = <<>>
  /\ k_hist = <<>>
  /\ decl_nodes = <<>>
  /\ n_hist = <<>>
  /\ ie_in \in SeqsUpTo(IntexprChars, MaxExprLen)
  /\ ie_out = <<>>
  /\ p_names = <<>>
  /\ p_fname = <<>>
  /\ p_hist = <<>>

\* is_fortran_intexpr(s) returns
IntexprCall ==
  /\ phase = "intexpr" /\ ie_out = <<>>
  /\ ie_out' = <<is_fortran_intexpr(ie_in)>>
  /\ UNCHANGED <<phase, ndebug, mangleVars, assert_failed, registryVars, outputVars,
                 classVars, releaseVars, e_hist, d_mangled_type, t_hist, k_hist,
                 decl_nodes, n_hist, ie_in, p_names, p_fname, p_hist>>

NextIntexpr == IntexprCall

SpecIntexpr == InitIntexpr /\ [][NextIntexpr]_vars

(***************************************************************************)
(* makeParameterName.  The parameters of one function are named in the     *)
(* order of the list; the name is kept in the attribute "fname" of the     *)
(* parameter.  The scope is not changed by the naming.                     *)
(***************************************************************************)
MaxParms == 3
MaxParmCalls == 4

Str_x == <<120>>                                      \* "x"
Str_X == <<88>>                                       \* "X"
Str_x0 == <<120, 48>>                                 \* "x0"
Str_a_scope_b == <<97, 58, 58, 98>>                   \* "a::b"
Str_arg1 == <<97, 114, 103, 49>>                      \* "arg1"
Str_arg == <<97, 114, 103>>                           \* "arg"

\* Strstr(name, "::")
Strstr_scope(name) ==
  \E i \in 1..(Len(name) - 1) : name[i] = 58 /\ name[i + 1] = 58

\* the name before the loop: the declared name in lower case when it is a
\* valid identifier without "::", "arg%d" otherwise
makeParameterName_origname(name, arg_num) ==
  IF name # NullStr /\ Len(name) > 0 /\ is_valid_identifier(name)
     /\ ~Strstr_scope(name)
  THEN Swig_string_lower(name)
  ELSE Str_arg \o FormatInt(arg_num)

\* while (!valid): the name is compared with the "fname" of the parameters
\* before p and looked up in the scope; on a clash the next name is
\* origname followed by arg_num, and arg_num is incremented
RECURSIVE makeParameterName_loop(_, _, _, _, _, _)
makeParameterName_loop(st, earlier, origname, name, arg_num, rounds) ==
  IF name \in earlier \/ name \in DOMAIN st
  THEN makeParameterName_loop(st, earlier, origname,
                              origname \o FormatInt(arg_num), arg_num + 1,
                              rounds + 1)
  ELSE [name |-> name, rounds |-> rounds + 1]

\* makeParameterName(n, p, arg_num) on the scope st, names being the
\* declared names of the parameters of n and fnames their "fname"
makeParameterName(st, names, fnames, p, arg_num) ==
  IF fnames[p] # <<>>
  THEN [ret |-> fnames[p][1], fnames |-> fnames, rounds |-> 0]
  ELSE LET origname == makeParameterName_origname(names[p], arg_num)
           earlier == {fnames[q][1] : q \in {q \in 1..(p - 1) : fnames[q] # <<>>}}
           r == makeParameterName_loop(st, earlier, origname, origname, arg_num, 0)
       IN [ret |-> r.name, fnames |-> [fnames EXCEPT ![p] = <<r.name>>],
           rounds |-> r.rounds]

\* the declared names of the parameters: none, names that differ in case
\* only, a qualified name, names of 63 characters, a name of the form arg%d
ParmNames ==
  {NullStr, Str_x, Str_X, Str_a_scope_b, Str_arg1, Fill(97, 63), Fill(65, 63)}

\* the scope at the time the function is wrapped
ParmScopes ==
  {<<>>,
   Setattr(Setattr(<<>>, Str_x, 1), Str_x0, 2),
   Setattr(Setattr(<<>>, Str_arg1, 1), Fill(97, 63), 2)}

InitParm ==
  /\ phase = "parm"
  /\ ndebug = FALSE
  /\ m_in = <<>>
  /\ m_out = <<>>
  /\ m_out2 = <<>>
  /\ m_pc = "idle"
  /\ assert_failed = FALSE
  /\ symtab \in ParmScopes
  /\ sym_name = <<>>
  /\ r_hist = <<>>
  /\ f_wrapper = <<>>
  /\ f_finterfaces = <<>>
  /\ f_fsubprograms = <<>>
  /\ f_fdecl = <<>>
  /\ d_overloads = <<>>
  /\ w_hist = <<>>
  /\ cplusplus = TRUE
  /\ ClassIdle
  /\ ReleaseIdle
  /\ e_hist = <<>>
  /\ d_mangled_type = <<>>
  /\ t_hist = <<>>
  /\ k_hist = <<>>
  /\ decl_nodes = <<>>
  /\ n_hist = <<>>
  /\ ie_in = <<>>
  /\ ie_out = <<>>
  /\ p_names \in SeqsUpTo(ParmNames, MaxParms) \ {<<>>}
  /\ p_fname = [q \in 1..Len(p_names) |-> <<>>]
  /\ p_hist = <<>>

\* the parameters that have their "fname"
ParmsNamed == {q \in 1..Len(p_fname) : p_fname[q] # <<>>}

\* the loops of cfuncWrapper and proxyfuncWrapper reach a parameter behind
\* the ones already named: makeParameterName(n, p, i)
ParmName ==
  /\ phase = "parm" /\ Len(p_hist) < MaxParmCalls
  /\ \E p \in 1..Len(p_names) : \E arg_num \in {p - 1} :
     \E r \in {makeParameterName(symtab, p_names, p_fname, p, arg_num)} :
       /\ \A q \in ParmsNamed : q < p
       /\ p_fname' = r.fnames
       /\ p_hist' = Append(p_hist, [p |-> p, arg_num |-> arg_num, again |-> FALSE,
                                    ret |-> r.ret, rounds |-> r.rounds])
  /\ UNCHANGED <<phase, ndebug, mangleVars, assert_failed, registryVars, outputVars,
                 classVars, releaseVars, e_hist, d_mangled_type, t_hist, k_hist,
                 decl_nodes, n_hist, ie_in, ie_out, p_names>>

\* a later loop asks for the name of a parameter that has one
ParmAgain ==
  /\ phase = "parm" /\ Len(p_hist) < MaxParmCalls
  /\ \E p \in ParmsNamed : \E arg_num \in 0..(p - 1) :
     \E r \in {makeParameterName(symtab, p_names, p_fname, p, arg_num)} :
       /\ p_fname' = r.fnames
       /\ p_hist' = Append(p_hist, [p |-> p, arg_num |-> arg_num, again |-> TRUE,
                                    ret |-> r.ret, rounds |-> r.rounds])
  /\ UNCHANGED <<phase, ndebug, mangleVars, assert_failed, registryVars, outputVars,
                 classVars, releaseVars, e_hist, d_mangled_type, t_hist, k_hist,
                 decl_nodes, n_hist, ie_in, ie_out, p_names>>

NextParm ==
  \/ ParmName
  \/ ParmAgain

SpecParm == InitParm /\ [][NextParm]_vars

(***************************************************************************)
(* The registry on names at the limits of validity: the empty name, a      *)
(* leading digit or underscore, names of 62, 63 and 64 characters.         *)
(***************************************************************************)
MaxIdOps == 3

Str_1foo == <<49, 102, 111, 111>>       \* "1foo"

\* the names handed to add_fsymbol
IdNames == {<<>>, Str_1foo, Str_uFoo, Str_foo, Str_Foo, Fill(97, 62), Fill(97, 63),
            Fill(97, 64)}

\* the sym:name of the nodes handed to make_unique_symname
IdNodeNames == {Str_foo, Str_uFoo, Fill(97, 62), Fill(97, 63), Fill(97, 64)}

\* the state after moduleDirective has registered the module name
InitIdent ==
  /\ phase = "ident"
  /\ ndebug = FALSE
  /\ m_in = <<>>
  /\ m_out = <<>>
  /\ m_out2 = <<>>
  /\ m_pc = "idle"
  /\ assert_failed = FALSE
  /\ symtab = Setattr(<<>>, Swig_string_lower(Str_thinvec), 0)
  /\ sym_name = <<>>
  /\ r_hist = <<>>
  /\ f_wrapper = <<>>
  /\ f_finterfaces = <<>>
  /\ f_fsubprograms = <<>>
  /\ f_fdecl = <<>>
  /\ d_overloads = <<>>
  /\ w_hist = <<>>
  /\ RestIdle

\* a call add_fsymbol(s, n, warn)
IdAdd ==
  /\ phase = "ident" /\ Len(r_hist) < MaxIdOps
  /\ \E s \in IdNames, warn \in Severities, n \in {Len(r_hist) + 1} :
     \E r \in {add_fsymbol(symtab, s, n, warn)} :
       /\ symtab' = r.symtab
       /\ r_hist' = Append(r_hist,
            [op |-> "add_fsymbol", node |-> n, name |-> s, warn |-> warn,
             ret |-> r.ret, before |-> symtab, errors |-> r.errors,
             warnings |-> r.warnings])
  /\ UNCHANGED <<phase, ndebug, mangleVars, assert_failed, sym_name, outputVars, restVars>>

\* a call make_unique_symname(n)
IdUnique ==
  /\ phase = "ident" /\ Len(r_hist) < MaxIdOps
  /\ \E name \in IdNodeNames, n \in {Len(r_hist) + 1} :
     \E r \in {make_unique_symname(symtab, name, n)} :
       /\ symtab' = r.symtab
       /\ r_hist' = Append(r_hist,
            [op |-> "make_unique_symname", node |-> n, name |-> name,
             warn |-> "WARN_FORTRAN_NAME_CONFLICT",
             ret |-> r.ret, before |-> symtab, errors |-> 0,
             warnings |-> r.warnings])
  /\ UNCHANGED <<phase, ndebug, mangleVars, assert_failed, sym_name, outputVars, restVars>>

NextIdent == IdAdd \/ IdUnique

SpecIdent == InitIdent /\ [][NextIdent]_vars

(***************************************************************************)
(* Constants: constantWrapper on a node that is not an enumerator.         *)
(*                                                                         *)
(* A typemap is the text attached to the node, NullStr when none is        *)
(* defined.  The record printed into f_fdecl names the path taken:         *)
(* "parameter" for a native parameter, "bound" for a variable bound to a   *)
(* C constant, whose definition is printed into f_wrapper.                 *)
(***************************************************************************)
MaxConsts == 3

Str_integer_C_INT == <<105, 110, 116, 101, 103, 101, 114, 40, 67, 95, 73, 78, 84, 41>>   \* "integer(C_INT)"
Str_integer == <<105, 110, 116, 101, 103, 101, 114>>                 \* "integer"
Str_v42 == <<52, 50>>                                     \* "42"
Str_v7 == <<55>>                                          \* "7"
Str_out_one == <<36, 114, 101, 115, 117, 108, 116, 32, 61, 32, 36, 49, 59>>   \* "$result = $1;"
Str_out_none == <<36, 114, 101, 115, 117, 108, 116, 32, 61, 32, 36, 49>>      \* "$result = $1"
Str_out_two == <<116, 32, 61, 32, 36, 49, 59, 32, 36, 114, 101, 115, 117, 108, 116, 32, 61, 32, 116, 59>>   \* "t = $1; $result = t;"
Str_N == <<78>>                                           \* "N"

\* bad_fortran_dims(n, "bindc"): the typemap asks for the check and a
\* dimension is not an integer literal; one warning for each such dimension
bad_fortran_dims(n) ==
  {i \in 1..Len(n.dims) :
     n.bindc_checkdim /\ Len(n.dims[i]) > 0 /\ ~is_fortran_intexpr(n.dims[i])}

\* is_native_parameter, given the value of feature:fortran:const
is_native_parameter(param_feature) ==
  IF param_feature = NullStr THEN FALSE
  ELSE IF param_feature = Str_v0 THEN FALSE
  ELSE TRUE

\* make_specifier_suffix(bindc_typestr): the text after the first '(' and
\* before the last ')' behind it, NullStr when there is none
make_specifier_suffix(t) ==
  LET opens == {i \in 1..Len(t) : t[i] = 40}
      start == IF opens = {} THEN Len(t) + 1
               ELSE (CHOOSE i \in opens : \A j \in opens : i <= j) + 1
      closes == {i \in start + 1..Len(t) : t[i] = 41}
      stop == IF closes = {} THEN start
              ELSE CHOOSE i \in closes : \A j \in closes : j <= i
  IN IF stop # start THEN SubSeq(t, start, stop - 1) ELSE NullStr

\* a count of the statements of a typemap that takes every text for one
num_semicolons_one(code) == 1

\* the loop over the characters of cwrap_code: the number of ';'
num_semicolons(code) == Cardinality({i \in 1..Len(code) : code[i] = 59})

\* the value constantWrapper wraps and the feature:fortran:const it reads
constantWrapper_value(n) ==
  [value |-> IF n.constvalue # NullStr THEN n.constvalue
             ELSE IF n.rawval # NullStr THEN n.rawval ELSE n.value,
   feature_const |-> IF n.constvalue # NullStr THEN Str_v1 ELSE n.feature_const]

\* the result of constantWrapper that prints nothing
ConstNoWrap(u, stage, warnings) ==
  [ret |-> "SWIG_NOWRAP", stage |-> stage, symtab |-> u.symtab, name |-> u.ret,
   f_wrapper |-> <<>>, f_fdecl |-> <<>>, warnings |-> warnings, errors |-> 0]

\* constantWrapper(n) from the bindc typemap on, u being the result of
\* make_unique_symname and v the value and the feature
constantWrapper_named(n, id, u, v) ==
  IF n.tmap_bindc = NullStr
  THEN ConstNoWrap(u, "bindc", <<"WARN_TYPEMAP_UNDEF">>)
  ELSE IF bad_fortran_dims(n) # {}
  THEN ConstNoWrap(u, "dims", [i \in 1..Cardinality(bad_fortran_dims(n)) |->
                                 "WARN_LANG_IDENTIFIER"])
  ELSE IF is_native_parameter(v.feature_const)
  THEN [ret |-> "SWIG_OK", stage |-> "parameter", symtab |-> u.symtab, name |-> u.ret,
        f_wrapper |-> <<>>,
        f_fdecl |-> <<[op |-> id, stage |-> "parameter", type |-> n.tmap_bindc,
                       name |-> u.ret,
                       value |-> IF make_specifier_suffix(n.tmap_bindc) # NullStr
                                 THEN v.value \o <<95>> \o make_specifier_suffix(n.tmap_bindc)
                                 ELSE v.value]>>,
        warnings |-> <<>>, errors |-> 0]
  ELSE IF n.tmap_out = NullStr
  THEN ConstNoWrap(u, "out", <<"WARN_TYPEMAP_OUT_UNDEF">>)
  ELSE IF num_semicolons(n.tmap_out) # 1
  THEN ConstNoWrap(u, "statements", <<"WARN_LANG_NATIVE_UNIMPL">>)
  ELSE IF n.tmap_ctype = NullStr
  THEN ConstNoWrap(u, "ctype", <<"WARN_FORTRAN_TYPEMAP_CTYPE_UNDEF">>)
  ELSE [ret |-> "SWIG_OK", stage |-> "bound", symtab |-> u.symtab, name |-> u.ret,
        f_wrapper |-> <<[op |-> id, k |-> "constant", code |-> n.tmap_out,
                         lname |-> v.value, ctype |-> n.tmap_ctype,
                         wname |-> Swig_name_wrapper(u.ret)]>>,
        f_fdecl |-> <<[op |-> id, stage |-> "bound", type |-> n.tmap_bindc,
                       name |-> u.ret, wname |-> Swig_name_wrapper(u.ret)]>>,
        warnings |-> <<>>, errors |-> 0]

\* constantWrapper(n) for the id-th constant on the scope st
constantWrapper(st, n, id) ==
  constantWrapper_named(n, id, make_unique_symname(st, n.symname, id),
                        constantWrapper_value(n))

\* a constant as the parser hands it over: %constant int foo = 42 with the
\* typemaps of an int
BaseConst ==
  [symname |-> Str_foo, rawval |-> NullStr, value |-> Str_v42,
   constvalue |-> NullStr, feature_const |-> NullStr,
   tmap_bindc |-> Str_integer_C_INT, bindc_checkdim |-> FALSE, dims |-> <<>>,
   tmap_out |-> Str_out_one, tmap_ctype |-> Str_integer]

\* the constants the traversal may visit: the base with one attribute varied
ConstDescriptors ==
  { BaseConst,
    [BaseConst EXCEPT !.symname = Str_Foo],
    [BaseConst EXCEPT !.rawval = Str_v7],
    [BaseConst EXCEPT !.constvalue = Str_v7],
    [BaseConst EXCEPT !.feature_const = Str_v1],
    [BaseConst EXCEPT !.feature_const = Str_v1, !.tmap_bindc = Str_integer],
    [BaseConst EXCEPT !.feature_const = Str_v0],
    [BaseConst EXCEPT !.feature_const = Str_v0, !.tmap_out = Str_out_two],
    [BaseConst EXCEPT !.tmap_bindc = NullStr],
    [BaseConst EXCEPT !.bindc_checkdim = TRUE, !.dims = <<Str_v2, Str_N>>],
    [BaseConst EXCEPT !.bindc_checkdim = TRUE, !.dims = <<Str_v2>>],
    [BaseConst EXCEPT !.tmap_out = NullStr],
    [BaseConst EXCEPT !.tmap_out = Str_out_none],
    [BaseConst EXCEPT !.tmap_out = Str_out_two],
    [BaseConst EXCEPT !.feature_const = Str_v1, !.tmap_out = Str_out_two],
    [BaseConst EXCEPT !.tmap_ctype = NullStr] }

\* the state after FORTRAN::top has made the output sections and
\* moduleDirective has registered the module name
InitConst ==
  /\ phase = "const"
  /\ ndebug \in BOOLEAN
  /\ m_in = <<>>
  /\ m_out = <<>>
  /\ m_out2 = <<>>
  /\ m_pc = "idle"
  /\ assert_failed = FALSE
  /\ symtab = Setattr(<<>>, Swig_string_lower(Str_thinvec), 0)
  /\ sym_name = <<>>
  /\ r_hist = <<>>
  /\ f_wrapper = <<>>
  /\ f_finterfaces = <<>>
  /\ f_fsubprograms = <<>>
  /\ f_fdecl = <<>>
  /\ d_overloads = <<>>
  /\ w_hist = <<>>
  /\ RestIdle

\* constantWrapper(n) on a constant that is not an enumerator
ConstWrap ==
  /\ phase = "const" /\ Len(k_hist) < MaxConsts
  /\ \E n \in ConstDescriptors, id \in {Len(k_hist) + 1} :
     \E r \in {constantWrapper(symtab, n, id)} :
       /\ (ndebug \/ constantWrapper_value(n).value # NullStr)
       /\ symtab' = r.symtab
       /\ f_wrapper' = f_wrapper \o r.f_wrapper
       /\ f_fdecl' = f_fdecl \o r.f_fdecl
       /\ k_hist' = Append(k_hist,
            [id |-> id, n |-> n, ret |-> r.ret, stage |-> r.stage, name |-> r.name,
             warnings |-> r.warnings, errors |-> r.errors])
  /\ UNCHANGED <<phase, ndebug, mangleVars, assert_failed, sym_name, r_hist,
                 f_finterfaces, f_fsubprograms, d_overloads, w_hist,
                 classVars, releaseVars, e_hist, d_mangled_type, t_hist,
                 decl_nodes, n_hist,
                 pureVars>>

NextConst == ConstWrap

SpecConst == InitConst /\ [][NextConst]_vars

(***************************************************************************)
(* Claims about the identifier synthesizer (checked under SpecMangle).     *)
(***************************************************************************)
\* the base-36 digits of a 32-bit value, most significant first, no leading
\* zero (the empty sequence for 0)
RECURSIVE Base36Digits(_)
Base36Digits(h) ==
  IF h = <<0, 0>> THEN <<>>
  ELSE Append(Base36Digits(HashDiv36(h)), Base36Char(HashRem36(h)))

MangleReturned == m_pc \in {"once", "twice"}

\* C4: mangle is idempotent and length-bounded: whenever make_fname has been
\* applied to a raw name and then to its own result, the two results are
\* equal, and every result has at most 63 characters.
C4_MangleIdempotentBounded ==
  /\ MangleReturned => Len(m_out) <= 63
  /\ m_pc = "twice" => (m_out2 = m_out /\ Len(m_out2) <= 63)

\* a name whose leading underscore and digit were moved and which was then
\* shortened went through both calls
C4_Witness ==
  /\ m_pc = "twice"
  /\ Len(m_in) > 63
  /\ IsUnderscore(m_in[1])
  /\ m_out # SubSeq(make_fname_moved(m_in), 1, 63)

\* C5: for every input longer than 63 characters, the last N characters of
\* the 63-character result are exactly the N base-36 digits of the hash of
\* the characters from position 55 to the end of the untruncated string.
C5_HashDigitsAreTheTail ==
  (MangleReturned /\ Len(m_in) > 63) =>
    LET digits == Base36Digits(HashOfTail(make_fname_moved(m_in)))
        N == Len(digits)
    IN /\ Len(m_out) = 63
       /\ SubSeq(m_out, 63 - N + 1, 63) = digits

\* C6: for every input longer than 63 characters that begins with a letter,
\* the result has exactly 63 characters and its first 55 characters are the
\* first 55 characters of the input.
C6_PrefixKept ==
  (MangleReturned /\ Len(m_in) > 63 /\ IsLetterChar(m_in[1])) =>
    /\ Len(m_out) = 63
    /\ SubSeq(m_out, 1, 55) = SubSeq(m_in, 1, 55)

\* a long name beginning with a letter was shortened and hash digits were
\* written into it
C6_Witness ==
  /\ m_pc = "once"
  /\ Len(m_in) > 63
  /\ IsLetterChar(m_in[1])
  /\ m_out # SubSeq(m_in, 1, 63)

\* C7: the result of mangle is a valid identifier for every input string,
\* and the validity assertion of the synthesizer never fails.
C7_MangleAlwaysValid ==
  /\ m_pc # "aborted"
  /\ ~assert_failed
  /\ MangleReturned => is_valid_identifier(m_out)

(***************************************************************************)
(* Claims about the symbol registry (checked under SpecRegistry).          *)
(***************************************************************************)
\* the scope after the i-th call on the registry
ScopeAfter(i) == IF i = Len(r_hist) THEN symtab ELSE r_hist[i + 1].before

LastCall == r_hist[Len(r_hist)]

\* what one call on the registry may do to the scope
C8_Step ==
  r_hist' # r_hist =>
    LET c == r_hist'[Len(r_hist')]
        folded == Swig_string_lower(IF c.op = "add_fsymbol" THEN c.name
                                    ELSE make_fname(c.name))
    IN \* the owner of an existing entry never changes
       /\ \A k \in DOMAIN symtab : k \in DOMAIN symtab' /\ symtab'[k] = symtab[k]
       \* at most one entry per case-folded identifier
       /\ \A k1, k2 \in DOMAIN symtab' :
            Swig_string_lower(k1) = Swig_string_lower(k2) => k1 = k2
       \* a later writer of a name that is taken is rejected or renamed
       /\ (c.op = "add_fsymbol" /\ folded \in DOMAIN symtab) =>
            (c.ret = "SWIG_NOWRAP" /\ symtab' = symtab)
       /\ (c.op = "make_unique_symname" /\ folded \in DOMAIN symtab) =>
            /\ Swig_string_lower(c.ret) # folded
            /\ Swig_string_lower(c.ret) \notin DOMAIN symtab

\* C8: after any sequence of add_fsymbol and make_unique_symname calls the
\* scope holds at most one entry per case-folded identifier and the owner of
\* an existing entry never changes: the first writer keeps the name, every
\* later writer of the same case-folded name is renamed or rejected.
C8_FirstWriterWins == [][C8_Step]_vars

\* one later writer was rejected and another was renamed, each on a name
\* owned by another node
C8_Witness ==
  /\ \E i \in 1..Len(r_hist) :
       /\ r_hist[i].op = "add_fsymbol"
       /\ r_hist[i].ret = "SWIG_NOWRAP"
       /\ Swig_string_lower(r_hist[i].name) \in DOMAIN r_hist[i].before
       /\ r_hist[i].before[Swig_string_lower(r_hist[i].name)] # r_hist[i].node
  /\ \E i \in 1..Len(r_hist) :
       /\ r_hist[i].op = "make_unique_symname"
       /\ r_hist[i].warnings = 1
       /\ r_hist[i].before[Swig_string_lower(make_fname(r_hist[i].name))] # r_hist[i].node

\* C9: of two registrations of names that differ only in letter case, the
\* first (made while the folded name is free) succeeds, the second returns
\* the conflict result whatever its severity, and leaves the scope as it was.
C9_CaseConflict ==
  \A i, j \in 1..Len(r_hist) :
    ( /\ i < j
      /\ r_hist[i].op = "add_fsymbol" /\ r_hist[j].op = "add_fsymbol"
      /\ r_hist[i].name # r_hist[j].name
      /\ Swig_string_lower(r_hist[i].name) = Swig_string_lower(r_hist[j].name)
      /\ is_valid_identifier(r_hist[i].name)
      /\ Swig_string_lower(r_hist[i].name) \notin DOMAIN r_hist[i].before )
    => /\ r_hist[i].ret = "SWIG_OK"
       /\ r_hist[j].ret = "SWIG_NOWRAP"
       /\ ScopeAfter(j) = r_hist[j].before

\* "Foo" was registered, then "foo" with the warning severity and "foo"
\* again with the silent one
C9_Witness ==
  /\ Len(r_hist) = 3
  /\ \A i \in 1..3 : r_hist[i].op = "add_fsymbol"
  /\ r_hist[1].name = Str_Foo /\ r_hist[1].ret = "SWIG_OK"
  /\ r_hist[2].name = Str_foo /\ r_hist[2].warn = "WARN_FORTRAN_NAME_CONFLICT"
  /\ r_hist[3].name = Str_foo /\ r_hist[3].warn = "WARN_NONE"
  /\ r_hist[3].ret = "SWIG_NOWRAP"

\* C10: make_unique_symname returns the mangled declared name when its folded
\* form is free, otherwise that name followed by the smallest i >= 1 whose
\* folded suffixed name is free; the folded result is registered for the
\* node, and when a suffix was added it replaces the node's sym:name.
C10_UniqueSymbol ==
  (Len(r_hist) > 0 /\ LastCall.op = "make_unique_symname") =>
    LET c == LastCall
        mangled == make_fname(c.name)
        folded == Swig_string_lower(mangled)
        taken == DOMAIN c.before
    IN /\ folded \notin taken =>
            (c.ret = mangled /\ sym_name[c.node] = c.name)
       /\ folded \in taken =>
            \E i \in 1..(Cardinality(taken) + 1) :
              /\ c.ret = mangled \o FormatInt(i)
              /\ (folded \o FormatInt(i)) \notin taken
              /\ \A j \in 1..(i - 1) : (folded \o FormatInt(j)) \in taken
              /\ sym_name[c.node] = c.ret
       /\ Swig_string_lower(c.ret) \in DOMAIN symtab
       /\ symtab[Swig_string_lower(c.ret)] = c.node
       /\ \A k \in taken : symtab[k] = c.before[k]

\* the folded name and the folded name followed by 1 were both taken, and
\* the node was renamed with the suffix 2
C10_Witness ==
  /\ Len(r_hist) > 0
  /\ LastCall.op = "make_unique_symname"
  /\ LastCall.ret = make_fname(LastCall.name) \o <<50>>
  /\ sym_name[LastCall.node] = LastCall.ret

(***************************************************************************)
(* Claims about the function wrapping pipeline (checked under Spec).       *)
(***************************************************************************)
\* the records of a section that the operation id caused
TextOf(section, id) == {i \in 1..Len(section) : section[i].op = id}

\* C1: an operation that ends in a no-wrap outcome at any stage has no text
\* in any output section: emission is all-or-nothing per operation.
C1_AllOrNothing ==
  \A h \in 1..Len(w_hist) :
    w_hist[h].ret = "SWIG_NOWRAP" =>
      /\ TextOf(f_wrapper, h) = {}
      /\ TextOf(f_finterfaces, h) = {}
      /\ TextOf(f_fsubprograms, h) = {}
      /\ TextOf(f_fdecl, h) = {}

\* the place of a snippet in the order C2 states
C2_Rank(k) ==
  CASE k \in {"in", "check"} -> 1
    [] k \in {"call", "out"} -> 2
    [] k = "argout" -> 3
    [] k = "freearg" -> 4
    [] k = "ret" -> 5
    [] k = "return" -> 6

C2_Ordered(item) ==
  LET B == item.body
      parms == w_hist[item.op].n.parms
      Has(k, p) == \E i \in 1..Len(B) : B[i].k = k /\ B[i].p = p
  IN \* the call to the underlying operation occurs exactly once
     /\ Cardinality({i \in 1..Len(B) : B[i].k = "call"}) = 1
     \* in+check per parameter, the call, argout, freearg, ret, return
     /\ \A i, j \in 1..Len(B) :
          i < j =>
            /\ C2_Rank(B[i].k) <= C2_Rank(B[j].k)
            /\ (C2_Rank(B[i].k) = C2_Rank(B[j].k) /\ B[i].p # 0) => B[i].p <= B[j].p
            /\ (B[i].p = B[j].p /\ C2_Rank(B[i].k) = 1 /\ C2_Rank(B[j].k) = 1) =>
                 (B[i].k = "in" /\ B[j].k = "check")
     \* every snippet attached to a wrapped parameter is emitted
     /\ \A q \in 1..Len(item.args) :
          LET p == item.args[q]
          IN /\ parms[p].tm_in => Has("in", p)
             /\ parms[p].tm_check => Has("check", p)
             /\ parms[p].tm_argout => Has("argout", p)
             /\ parms[p].tm_freearg => Has("freearg", p)

\* C2: the body of every Stage 1 wrapper is: per wrapped parameter in order
\* its 'in' then its 'check' snippet; the call to the underlying operation
\* exactly once, with the 'out' conversion; the 'argout' snippets in order;
\* the 'freearg' snippets in order; the 'ret' snippet; the return statement.
C2_NativeWrapperOrder ==
  \A w \in 1..Len(f_wrapper) :
    f_wrapper[w].stage = "cfunc" => C2_Ordered(f_wrapper[w])

\* the place of a snippet in the order C3 states
C3_Rank(k) ==
  CASE k = "prepend" -> 0
    [] k = "fin" -> 1
    [] k \in {"call", "shadow"} -> 2
    [] k = "fout" -> 3
    [] k = "fargout" -> 4
    [] k = "append" -> 5

C3_Calls(B) == {i \in 1..Len(B) : B[i].k = "call"}

C3_Ordered(item) ==
  LET B == item.body
      n == w_hist[item.op].n
      cparms == CParmList(n.parms)
      Has(k, p) == \E i \in 1..Len(B) : B[i].k = k /\ B[i].p = p
  IN /\ \A i, j \in 1..Len(B) :
          i < j =>
            /\ C3_Rank(B[i].k) <= C3_Rank(B[j].k)
            /\ (C3_Rank(B[i].k) = C3_Rank(B[j].k) /\ B[i].p # 0) => B[i].p < B[j].p
     \* the result is assigned iff the interface return type is not void
     /\ \A i \in C3_Calls(B) :
          /\ B[i].assign = ~is_imsubroutine(n)
          /\ B[i].name = w_hist[item.op].names.imname
     /\ \A q \in 1..Len(cparms) :
          LET p == cparms[q]
          IN /\ n.parms[p].fin => Has("fin", p)
             /\ n.parms[p].fargout => Has("fargout", p)
     /\ n.fout => Has("fout", 0)

\* the number of $action markers of a feature:shadow text
C3_Markers(shadow) == Cardinality({i \in 1..Len(shadow) : shadow[i] = "$action"})

\* C3 as stated: the body of every Stage 3 proxy routine is the 'fin'
\* conversions in parameter order, exactly one call of the Stage 2 routine
\* (assigned to the result variable iff the interface type is non-void),
\* the 'fout' conversion, the 'fargout' conversions in parameter order.
C3_ProxyOrderOneCall ==
  \A w \in 1..Len(f_fsubprograms) :
    f_fsubprograms[w].stage = "proxy" =>
      /\ C3_Ordered(f_fsubprograms[w])
      /\ Cardinality(C3_Calls(f_fsubprograms[w].body)) = 1

\* C3 (amended): the same order, with exactly one call of the Stage 2
\* routine when the operation has no feature:shadow text; with such a text
\* the action is that text, holding one call per $action marker in it.
C3_ProxyOrder ==
  \A w \in 1..Len(f_fsubprograms) :
    f_fsubprograms[w].stage = "proxy" =>
      LET n == w_hist[f_fsubprograms[w].op].n
      IN /\ C3_Ordered(f_fsubprograms[w])
         /\ Cardinality(C3_Calls(f_fsubprograms[w].body)) =
              IF n.has_shadow THEN C3_Markers(n.shadow) ELSE 1

\* a proxy routine with two converted parameters, a result conversion and
\* one plain call was emitted, and so was one whose shadow text makes no call
C3_Witness ==
  /\ \E w \in 1..Len(f_fsubprograms) :
       LET B == f_fsubprograms[w].body
       IN /\ f_fsubprograms[w].stage = "proxy"
          /\ ~w_hist[f_fsubprograms[w].op].n.has_shadow
          /\ Cardinality({i \in 1..Len(B) : B[i].k = "fin"}) = 2
          /\ Cardinality({i \in 1..Len(B) : B[i].k = "fargout"}) = 2
          /\ Cardinality({i \in 1..Len(B) : B[i].k = "fout"}) = 1
          /\ Cardinality(C3_Calls(B)) = 1
  /\ \E w \in 1..Len(f_fsubprograms) :
       /\ f_fsubprograms[w].stage = "proxy"
       /\ w_hist[f_fsubprograms[w].op].n.has_shadow
       /\ C3_Calls(f_fsubprograms[w].body) = {}


\* the operations wrapped successfully whose display name is k, in the order
\* they were visited
C11_Wrapped(k) ==
  SelectIdx([h \in 1..Len(w_hist) |->
               w_hist[h].ret = "SWIG_OK" /\ w_hist[h].names.fsymname = k])

C11_WitnessSkipped ==
  /\ Len(w_hist) = 2
  /\ w_hist[1].ret = "SWIG_NOWRAP" /\ w_hist[2].ret = "SWIG_OK"
  /\ w_hist[1].names.fsymname = w_hist[2].names.fsymname
  /\ w_hist[2].names.fsymname # NullStr
  /\ Len(d_overloads[w_hist[2].names.fsymname]) = 1


\* whether the operation has a variadic parameter
C16_Variadic(n) == \E i \in 1..Len(n.parms) : n.parms[i].varargs

C16_Warned(h) ==
  \E d \in 1..Len(w_hist[h].diags) : w_hist[h].diags[d] = "WARN_LANG_NATIVE_UNIMPL"

C16_NoStageText(h) ==
  /\ TextOf(f_wrapper, h) = {}
  /\ TextOf(f_finterfaces, h) = {}
  /\ TextOf(f_fsubprograms, h) = {}

\* C16 as stated: an operation with a variadic parameter is skipped entirely
\* in normal and in ABI-direct mode: a diagnostic is recorded, the outcome
\* is no-wrap and no Stage 1, 2 or 3 text is emitted for it.
C16_VariadicSkipped ==
  \A h \in 1..Len(w_hist) :
    C16_Variadic(w_hist[h].n) =>
      /\ w_hist[h].ret = "SWIG_NOWRAP"
      /\ w_hist[h].diags # <<>>
      /\ C16_NoStageText(h)

\* C16 (amended): in ABI-direct mode an operation with a variadic parameter
\* is skipped entirely (no-wrap, a diagnostic, no stage text); in normal
\* mode only the variadic parameter is skipped: when the operation is
\* wrapped the diagnostic is recorded and its three stages are emitted over
\* the remaining parameters.
C16_VariadicHandling ==
  \A h \in 1..Len(w_hist) :
    C16_Variadic(w_hist[h].n) =>
      IF w_hist[h].n.bindc
      THEN /\ w_hist[h].ret = "SWIG_NOWRAP"
           /\ w_hist[h].diags # <<>>
           /\ w_hist[h].stage = "bindcfuncWrapper" => C16_Warned(h)
           /\ C16_NoStageText(h)
      ELSE w_hist[h].ret = "SWIG_OK" =>
             /\ C16_Warned(h)
             /\ \A sec \in {f_wrapper, f_finterfaces} :
                  \E w \in TextOf(sec, h) :
                    /\ \A q \in 1..Len(sec[w].args) :
                         ~w_hist[h].n.parms[sec[w].args[q]].varargs
                    /\ \A p \in 1..Len(w_hist[h].n.parms) :
                         (~w_hist[h].n.parms[p].varargs /\ ~w_hist[h].n.parms[p].numinputs0)
                           => \E q \in 1..Len(sec[w].args) : sec[w].args[q] = p
             /\ \E w \in TextOf(f_fsubprograms, h) :
                  /\ f_fsubprograms[w].stage = "proxy"
                  /\ \A b \in 1..Len(f_fsubprograms[w].body) :
                       f_fsubprograms[w].body[b].p # 0 =>
                         ~w_hist[h].n.parms[f_fsubprograms[w].body[b].p].varargs

\* a normal-mode operation with a variadic parameter was wrapped, with the
\* diagnostic, over its other parameter
C16_Witness ==
  \E h \in 1..Len(w_hist) :
    /\ C16_Variadic(w_hist[h].n) /\ ~w_hist[h].n.bindc
    /\ w_hist[h].ret = "SWIG_OK" /\ C16_Warned(h)
    /\ \E w \in TextOf(f_wrapper, h) : Len(f_wrapper[w].args) = 1

\* an ABI-direct operation with a variadic parameter was refused by
\* bindcfuncWrapper
C16_WitnessBindc ==
  \E h \in 1..Len(w_hist) :
    /\ C16_Variadic(w_hist[h].n) /\ w_hist[h].n.bindc
    /\ w_hist[h].stage = "bindcfuncWrapper" /\ C16_Warned(h)

\* the public display symbol of a wrapped operation
C17_Display(h) ==
  IF w_hist[h].names.fsymname # NullStr THEN w_hist[h].names.fsymname
  ELSE IF w_hist[h].n.bindc THEN w_hist[h].names.imname
  ELSE w_hist[h].names.fname

\* C17: after an operation has been wrapped successfully its public display
\* symbol (proxy name, alias or generic name, interface name in ABI-direct
\* mode) is present, case-folded, in the registry of the scope.
C17_DisplayRegistered ==
  \A h \in 1..Len(w_hist) :
    w_hist[h].ret = "SWIG_OK" =>
      Swig_string_lower(C17_Display(h)) \in DOMAIN symtab

\* C19: an ABI-direct operation emits the Stage 2 interface alone, bound to
\* the declared linkage name; nothing goes to the native wrapper section or
\* the proxy section; it never carries an overload suffix.
C19_BindcInterfaceOnly ==
  \A h \in 1..Len(w_hist) :
    w_hist[h].n.bindc =>
      /\ TextOf(f_wrapper, h) = {}
      /\ TextOf(f_fsubprograms, h) = {}
      /\ w_hist[h].ret = "SWIG_OK" =>
           /\ Cardinality(TextOf(f_finterfaces, h)) = 1
           /\ \A w \in TextOf(f_finterfaces, h) :
                /\ f_finterfaces[w].bind = w_hist[h].n.name
                /\ f_finterfaces[w].name = make_fname(w_hist[h].n.symname)
           /\ w_hist[h].n.overname = NullStr

(***************************************************************************)
(* Claims about classes (checked under SpecClass).                         *)
(***************************************************************************)
\* the 'type' lines written for the class visited as number id, in the type
\* being written or in the declarations
TypeLines(id) ==
  {x \in (IF f_class = <<>> THEN {} ELSE {f_class[1][q] : q \in 1..Len(f_class[1])})
         \cup UNION {{f_fdecl[i].text[q] : q \in 1..Len(f_fdecl[i].text)} :
                       i \in {i \in 1..Len(f_fdecl) : f_fdecl[i].stage = "type"}} :
     x.k = "type" /\ x.cls = id}

\* the bases of c that are not ignored, in declaration order
NonIgnoredBases(c) ==
  LET NotIgnored(b) == ~b.ignore IN SelectSeq(c.bases, NotIgnored)

\* C20: the generated type extends only the first base that is not ignored;
\* each further base that is not ignored gives exactly one warning naming
\* it, in order; an ignored base gives no extends clause and no warning.
C20_MultipleBases ==
  \A h \in 1..Len(c_hist) :
    LET ni == NonIgnoredBases(c_hist[h].c) IN
      /\ c_hist[h].warnings =
           [q \in 1..(Len(ni) - 1) |->
              [warn |-> "WARN_FORTRAN_MULTIPLE_INHERITANCE", base |-> ni[q + 1].sym_name]]
      /\ c_hist[h].ret = "SWIG_OK" =>
           /\ TypeLines(c_hist[h].id) # {}
           /\ \A x \in TypeLines(c_hist[h].id) :
                x.extends = IF ni = <<>> THEN NullStr ELSE ni[1].fortran_name

\* a class with an ignored first base and two further bases has been
\* written to the declarations: it extends B and warned about C
C20_Witness ==
  \E h \in 1..Len(c_hist) :
    /\ Len(c_hist[h].c.bases) = 3 /\ c_hist[h].c.bases[1].ignore
    /\ c_hist[h].ret = "SWIG_OK"
    /\ Len(c_hist[h].warnings) = 1 /\ c_hist[h].warnings[1].base = Str_C
    /\ \E i \in 1..Len(f_fdecl) :
         /\ f_fdecl[i].stage = "type" /\ f_fdecl[i].cls = c_hist[h].id
         /\ f_fdecl[i].text[1].extends = Str_B
\* the visits of member functions the handlers refused in class number id
RefusedMembers(id) ==
  {k \in 1..Len(w_hist) : w_hist[k].stage = "handler" /\ w_hist[k].cls = id}

\* C13: a struct bound to C that has a base that is not ignored, or a member
\* function (ordinary or static), ends in an error and nothing is emitted
\* for it: no type in the declarations and no policy macro.
C13_BindcStructRejected ==
  \A h \in 1..Len(c_hist) :
    (/\ c_hist[h].c.bindc
     /\ \/ NonIgnoredBases(c_hist[h].c) # <<>>
        \/ RefusedMembers(c_hist[h].id) # {})
    => /\ c_hist[h].errors > 0 \/ RefusedMembers(c_hist[h].id) # {}
       /\ \A i \in 1..Len(f_fdecl) :
            ~(f_fdecl[i].stage = "type" /\ f_fdecl[i].cls = c_hist[h].id)
       /\ \A i \in 1..Len(f_policies) : f_policies[i].cls # c_hist[h].id

\* the part of C13 about a base class: a struct bound to C with a base that
\* is not ignored ends in an error with no type and no policy macro
C13_BindcBaseRejected ==
  \A h \in 1..Len(c_hist) :
    (c_hist[h].c.bindc /\ NonIgnoredBases(c_hist[h].c) # <<>>)
    => /\ c_hist[h].errors > 0 /\ c_hist[h].ret = "SWIG_NOWRAP"
       /\ TypeLines(c_hist[h].id) = {}
       /\ \A i \in 1..Len(f_policies) : f_policies[i].cls # c_hist[h].id

\* a struct bound to C was closed after a member function was refused, and
\* its type is in the declarations
C13_TypeAfterError ==
  \E h \in 1..Len(c_hist) :
    /\ c_hist[h].c.bindc /\ RefusedMembers(c_hist[h].id) # {}
    /\ \E i \in 1..Len(f_fdecl) :
         f_fdecl[i].stage = "type" /\ f_fdecl[i].cls = c_hist[h].id
\* the visits of a constructor or destructor inside a struct bound to C
BindcCtorDtor ==
  {k \in 1..Len(w_hist) :
     /\ w_hist[k].n.kind \in {"constructor", "destructor"}
     /\ c_hist[w_hist[k].cls].c.bindc}

\* C14: a constructor or destructor visited inside a struct bound to C is
\* rejected with an error: no wrapper, interface or proxy text is emitted
\* for it and no constructor interface is emitted for the struct.
C14_BindcCtorDtorRejected ==
  \A k \in BindcCtorDtor :
    /\ \E q \in 1..Len(w_hist[k].diags) : w_hist[k].diags[q] = "error"
    /\ TextOf(f_wrapper, k) = {}
    /\ TextOf(f_finterfaces, k) = {}
    /\ TextOf(f_fsubprograms, k) = {}
    /\ \A i \in 1..Len(f_fdecl) :
         ~(f_fdecl[i].stage = "constructors" /\ f_fdecl[i].cls = w_hist[k].cls)

\* a constructor of a struct bound to C was wrapped: SWIG_OK, no error, and
\* its text is in the three sections
C14_CtorWrapped ==
  \E k \in BindcCtorDtor :
    /\ w_hist[k].n.kind = "constructor" /\ w_hist[k].ret = "SWIG_OK"
    /\ w_hist[k].diags = <<>>
    /\ TextOf(f_wrapper, k) # {} /\ TextOf(f_finterfaces, k) # {}
    /\ TextOf(f_fsubprograms, k) # {}

\* a constructor interface was written for a struct bound to C
C14_CtorGroup ==
  \E k \in BindcCtorDtor : \E i \in 1..Len(f_fdecl) :
    f_fdecl[i].stage = "constructors" /\ f_fdecl[i].cls = w_hist[k].cls

\* the destructor of a struct bound to C stopped the generator in an
\* assertion after its stages had printed their text
C14_DtorAbort ==
  /\ assert_failed
  /\ \E k \in BindcCtorDtor :
       /\ k = Len(w_hist) /\ w_hist[k].n.kind = "destructor"
       /\ TextOf(f_wrapper, k) # {}

\* with assertions compiled out the destructor of a struct bound to C is
\* wrapped and a procedure line is written into the type bound to C
C14_DtorProcedure ==
  /\ ndebug /\ f_class # <<>>
  /\ \E k \in BindcCtorDtor :
       /\ w_hist[k].n.kind = "destructor" /\ w_hist[k].ret = "SWIG_OK"
       /\ \E q \in 1..Len(f_class[1]) :
            f_class[1][q].k = "procedure" /\ f_class[1][q].op = k
(***************************************************************************)
(* Claims about the generated release procedure (checked under             *)
(* SpecRelease).                                                           *)
(***************************************************************************)
\* C12: over the calls of release on one instance the destructor action
\* runs at most once; it runs only when the ownership bit is set; after
\* every call the pointer is null and the flags are zero; a release of a
\* never constructed or not owning instance runs no destructor.
C12_ReleaseOnce ==
  /\ \A i \in 1..Len(rel_hist) :
       /\ rel_hist[i].actions \in {0, 1}
       /\ rel_hist[i].actions = 1 <=>
            btest(rel_hist[i].before.cmemflags, swig_cmem_own_bit)
       /\ rel_hist[i].after.cptr = 0 /\ rel_hist[i].after.cmemflags = 0
       /\ (rel_hist[i].before.cptr = 0 /\ rel_hist[i].before.cmemflags = 0)
            => rel_hist[i].actions = 0
  /\ \A i \in 1..Len(rel_hist), j \in 1..Len(rel_hist) :
       (i < j /\ rel_hist[i].h = rel_hist[j].h /\ rel_hist[i].epoch = rel_hist[j].epoch)
         => rel_hist[i].actions + rel_hist[j].actions <= 1
  /\ \A h \in DOMAIN rel_handles :
       (\E i \in 1..Len(rel_hist) :
          rel_hist[i].h = h /\ rel_hist[i].epoch = rel_handles[h].epoch)
         => rel_handles[h].cptr = 0 /\ rel_handles[h].cmemflags = 0

\* an owning instance was released twice: the first call ran the
\* destructor, the second did not
C12_Witness ==
  \E i \in 1..Len(rel_hist), j \in 1..Len(rel_hist) :
    /\ i < j /\ rel_hist[i].h = rel_hist[j].h /\ rel_hist[i].epoch = rel_hist[j].epoch
    /\ rel_hist[i].actions = 1 /\ rel_hist[j].actions = 0
    /\ rel_hist[i].before.cptr # 0

\* a never constructed instance was released
C12_WitnessNull ==
  \E i \in 1..Len(rel_hist) :
    rel_hist[i].epoch = 0 /\ rel_hist[i].before.cptr = 0 /\ rel_hist[i].actions = 0

\* an instance that refers to an object without owning it was released
C12_WitnessView ==
  \E i \in 1..Len(rel_hist) :
    /\ rel_hist[i].before.cptr # 0
    /\ ~btest(rel_hist[i].before.cmemflags, swig_cmem_own_bit)
    /\ rel_hist[i].before.cmemflags # 0
    /\ rel_hist[i].actions = 0
(***************************************************************************)
(* Claims about enumerations (checked under SpecEnum).                     *)
(***************************************************************************)
\* a plain base-10 integer literal: an optional minus, then digits with no
\* leading zero before further digits
C15_PlainLiteral(s) ==
  LET body == IF s # <<>> /\ s[1] = 45 THEN Tail(s) ELSE s
  IN /\ body # <<>>
     /\ \A i \in 1..Len(body) : IsDigitChar(body[i])
     /\ ~(body[1] = 48 /\ Len(body) > 1)

\* the text enumDeclaration number id left in the declarations
C15_Text(id, stage) ==
  {i \in 1..Len(f_fdecl) : f_fdecl[i].op = id /\ f_fdecl[i].stage = stage}

\* the enumerations that were wrapped to the end
C15_Wrapped ==
  {h \in 1..Len(e_hist) :
     e_hist[h].ret = "SWIG_OK" /\ ~(assert_failed /\ h = Len(e_hist))}

\* every initializer of the members of n is a plain literal
C15_AllPlain(n) ==
  \A i \in 1..Len(n.members) :
    n.members[i].enumvalue # NullStr => C15_PlainLiteral(n.members[i].enumvalue)

C15_WitnessShift ==
  \E h \in C15_Wrapped :
    /\ e_hist[h].n.feature_const = NullStr
    /\ \E i \in 1..Len(e_hist[h].n.members) : e_hist[h].n.members[i].enumvalue = Str_vshift
    /\ C15_Text(h, "enum") = {} /\ C15_Text(h, "constant") # {}

\* an enumeration with the member A = 1<<3 whose feature is set to "1" was
\* written as a group
C15_WitnessForced ==
  \E h \in C15_Wrapped :
    /\ e_hist[h].n.feature_const = Str_v1
    /\ \E i \in 1..Len(e_hist[h].n.members) : e_hist[h].n.members[i].enumvalue = Str_vshift
    /\ C15_Text(h, "enum") # {}
(***************************************************************************)
(* Claims about placeholder substitution (checked under SpecTypes).        *)
(***************************************************************************)
\* the opaque bindings in the declarations
C18_Bindings == {i \in 1..Len(f_fdecl) : f_fdecl[i].stage = "opaque"}

\* the substitutions that went through the cache
C18_Cached == {h \in 1..Len(t_hist) : t_hist[h].cached}

\* at most one opaque binding is emitted per unresolved base type, and the
\* substitutions of one unresolved type return the same identifier
C18_OneBindingSameName ==
  /\ \A b \in BaseTypes :
       Cardinality({i \in C18_Bindings : f_fdecl[i].basetype = b}) <= 1
  /\ \A h \in C18_Cached, k \in C18_Cached :
       t_hist[h].basetype = t_hist[k].basetype => t_hist[h].ret = t_hist[k].ret

\* C18: each unresolved base type causes at most one opaque binding in the
\* declarations, every substitution for it returns the same cached
\* identifier, and that identifier names (up to case, as in Fortran) a
\* binding that was emitted.
C18_OpaqueBindingCached ==
  /\ C18_OneBindingSameName
  /\ \A h \in C18_Cached :
       \E i \in C18_Bindings :
         Swig_string_lower(f_fdecl[i].name) = Swig_string_lower(t_hist[h].ret)

\* Foo was substituted twice: one binding, the same name both times
C18_WitnessReuse ==
  \E h \in C18_Cached, k \in C18_Cached :
    /\ h < k /\ t_hist[h].basetype = Str_Foo /\ t_hist[k].basetype = Str_Foo
    /\ Cardinality({i \in C18_Bindings : f_fdecl[i].basetype = Str_Foo}) = 1

\* Bar was substituted after a constant took the name SWIGTYPE_Bar: the
\* name is returned and no binding carries it
C18_WitnessUnbound ==
  \E h \in C18_Cached :
    /\ t_hist[h].basetype = Str_Bar /\ t_hist[h].ret = Str_SWIGTYPE_Bar
    /\ t_hist[h].warnings = 1
    /\ \A i \in C18_Bindings : f_fdecl[i].name # Str_SWIGTYPE_Bar

\* the 'procedure' lines written for the member visited as number k, in the
\* type being written or in a type moved to the declarations
ProcedureLines(k) ==
  {x \in (IF f_class = <<>> THEN {} ELSE {f_class[1][q] : q \in 1..Len(f_class[1])})
         \cup UNION {{f_fdecl[i].text[q] : q \in 1..Len(f_fdecl[i].text)} :
                       i \in {i \in 1..Len(f_fdecl) : f_fdecl[i].stage = "type"}} :
     x.k = "procedure" /\ x.op = k}

\* the member visits whose public name is, but for case, the name of the
\* class they are in
SameNameAsClass ==
  {k \in 1..Len(w_hist) :
     /\ w_hist[k].n.member
     /\ Swig_string_lower(w_hist[k].names.fsymname)
          = Swig_string_lower(c_hist[w_hist[k].cls].c.sym_name)}

C22_Rejected ==
  {h \in 1..Len(k_hist) :
     /\ k_hist[h].n.tmap_bindc # NullStr
     /\ bad_fortran_dims(k_hist[h].n) = {}
     /\ ~is_native_parameter(constantWrapper_value(k_hist[h].n).feature_const)
     /\ k_hist[h].n.tmap_out # NullStr
     /\ Len(SelectSeq(k_hist[h].n.tmap_out, LAMBDA ch : ch = 59)) # 1}

\* C22: on the path that binds a variable to a C constant, a constant whose
\* 'out' typemap has not exactly one statement is rejected with a hard
\* error, and nothing is appended for it to f_wrapper or to f_fdecl.
C22_HardError ==
  \A h \in C22_Rejected :
    /\ k_hist[h].ret = "SWIG_NOWRAP"
    /\ k_hist[h].errors > 0
    /\ TextOf(f_wrapper, h) = {}
    /\ TextOf(f_fdecl, h) = {}

\* C22 as the code has it: the constant is rejected with the warning
\* WARN_LANG_NATIVE_UNIMPL and no error, the result is SWIG_NOWRAP, and
\* nothing is appended for it to f_wrapper or to f_fdecl; a text with
\* exactly one ';' on this path is not rejected for its statements.
C22_RejectedWithWarning ==
  /\ \A h \in C22_Rejected :
       /\ k_hist[h].ret = "SWIG_NOWRAP"
       /\ k_hist[h].warnings = <<"WARN_LANG_NATIVE_UNIMPL">>
       /\ k_hist[h].errors = 0
       /\ TextOf(f_wrapper, h) = {}
       /\ TextOf(f_fdecl, h) = {}
  /\ \A h \in 1..Len(k_hist) :
       k_hist[h].stage = "statements" => h \in C22_Rejected

\* a constant with an 'out' typemap of two statements and one with an 'out'
\* typemap without ';' were rejected, after a constant was bound
C22_Witness ==
  \E h, k \in C22_Rejected :
    /\ k_hist[h].n.tmap_out = Str_out_two
    /\ k_hist[k].n.tmap_out = Str_out_none
    /\ f_wrapper # <<>>

(***************************************************************************)
(* Claims about the registry on names at the limits of validity (checked   *)
(* under SpecIdent).                                                       *)
(***************************************************************************)
\* the calls of add_fsymbol with a name that is not a valid identifier
C23_InvalidCalls ==
  {h \in 1..Len(r_hist) :
     r_hist[h].op = "add_fsymbol" /\ ~is_valid_identifier(r_hist[h].name)}

\* C23: add_fsymbol called with a name that is empty, starts with a digit
\* or an underscore, or is longer than 63 characters reports an error,
\* returns SWIG_NOWRAP and leaves the scope unchanged, whatever the warning
\* argument.
C23_InvalidRejected ==
  /\ \A h \in C23_InvalidCalls :
       /\ r_hist[h].ret = "SWIG_NOWRAP"
       /\ r_hist[h].errors = 1
       /\ ScopeAfter(h) = r_hist[h].before
  /\ \A h \in 1..Len(r_hist) :
       (/\ r_hist[h].op = "add_fsymbol"
        /\ \/ r_hist[h].name = <<>>
           \/ Len(r_hist[h].name) > 63
           \/ (r_hist[h].name # <<>> /\ r_hist[h].name[1] \in (48..57) \cup {95}))
       => h \in C23_InvalidCalls

\* the empty name, a name of 64 characters and a name with a leading digit
\* were handed to add_fsymbol and rejected, one of them with WARN_NONE
C23_Witness ==
  /\ Len(r_hist) = 3
  /\ r_hist[1].name = <<>> /\ r_hist[1].warn = "WARN_NONE"
  /\ r_hist[2].name = Fill(97, 64)
  /\ r_hist[3].name = Str_1foo
  /\ \A h \in 1..3 : h \in C23_InvalidCalls /\ r_hist[h].errors = 1
  /\ DOMAIN symtab = {Swig_string_lower(Str_thinvec)}

\* a name with a leading underscore was rejected after another name had
\* been registered, and the scope kept that name alone
C23_WitnessUnderscore ==
  \E h \in C23_InvalidCalls :
    /\ r_hist[h].name = Str_uFoo
    /\ Str_foo \in DOMAIN r_hist[h].before
    /\ ScopeAfter(h) = r_hist[h].before

(***************************************************************************)
(* Claims about the names of classes and enumerations (checked under       *)
(* SpecDecl).                                                              *)
(***************************************************************************)
\* the keys of the scope a declaration owns under its own name (the
\* enumerators are registered under the node of their enumeration as well)
OwnEntries(d) ==
  {k \in DOMAIN symtab :
     /\ symtab[k] = DeclNode(d)
     /\ k # Swig_string_lower(Str_A)}

\* the visits of the definition of a declaration that gave it a name
DefinitionsOf(d) ==
  {h \in 1..Len(n_hist) :
     /\ n_hist[h].node = d /\ n_hist[h].name # NullStr
     /\ n_hist[h].op \in {"classDeclaration", "enumDeclaration"}}

\* C24: the public name of a class or enumeration is computed and
\* registered at most once: after forward declarations and the definition
\* the declaration owns exactly one entry of the scope, and the name given
\* at the first visit is the name of every later emission, and of every
\* substitution made once the definition has been visited.
C24_NamedOnce ==
  \A d \in {"class", "enum"} :
    /\ Cardinality(OwnEntries(d)) <= 1
    /\ DefinitionsOf(d) # {} => Cardinality(OwnEntries(d)) = 1
    /\ \A i, j \in 1..Len(n_hist) :
         (/\ i < j /\ n_hist[i].node = d /\ n_hist[j].node = d
          /\ n_hist[i].op # "get_fclassname" /\ n_hist[i].name # NullStr
          /\ n_hist[j].name # NullStr
          /\ n_hist[j].op = "get_fclassname" => \E q \in DefinitionsOf(d) : q < j)
         => n_hist[j].name = n_hist[i].name

\* the enumeration _Color was defined at module level under the name
\* 'Color_' and a later substitution of $fenumname gave '_Color'
C24_Renamed ==
  \E i, j \in 1..Len(n_hist) :
    /\ i < j
    /\ n_hist[i].op = "enumDeclaration" /\ n_hist[i].name = make_fname(Str_uColor)
    /\ n_hist[j].op = "get_fclassname" /\ n_hist[j].node = "enum"
    /\ n_hist[j].name = Str_uColor

\* the enumeration Color of the class Foo was declared forward and then
\* defined: it owns the keys 'color' and 'foo_color'
C24_TwoEntries ==
  /\ decl_nodes["enum"].defined /\ decl_nodes["enum"].in_class
  /\ OwnEntries("enum") = {Swig_string_lower(Str_Color),
                           Swig_string_lower(Str_Foo \o <<95>> \o Str_Color)}

\* the class was declared forward, defined and substituted under one name
\* and owns one key
C24_ClassOnce ==
  /\ decl_nodes["class"].defined
  /\ \E i, j, k \in 1..Len(n_hist) :
       /\ i < j /\ j < k
       /\ n_hist[i].op = "classforwardDeclaration"
       /\ n_hist[j].op = "classDeclaration"
       /\ n_hist[k].op = "get_fclassname" /\ n_hist[k].node = "class"
       /\ n_hist[k].name = Str_Foo /\ n_hist[i].name = Str_Foo
  /\ OwnEntries("class") = {Swig_string_lower(Str_Foo)}

(***************************************************************************)
(* Further claims about classes (checked under SpecClass).                 *)
(***************************************************************************)
\* the lines of kind k written for the class visited as number id, in the
\* type being written or in a type moved to the declarations
ClassLines(id, k) ==
  {x \in (IF f_class = <<>> THEN {} ELSE {f_class[1][q] : q \in 1..Len(f_class[1])})
         \cup UNION {{f_fdecl[i].text[q] : q \in 1..Len(f_fdecl[i].text)} :
                       i \in {i \in 1..Len(f_fdecl) : f_fdecl[i].stage = "type"}} :
     x.k = k /\ x.cls = id}

\* the visits of an assignment operator in the class visited as number id
AssignmentVisits(id) ==
  {k \in 1..Len(w_hist) :
     w_hist[k].cls = id /\ w_hist[k].n.generic = Str_assignment}

\* the class visited as number id has been closed
ClassClosed(id) ==
  \E i \in 1..Len(f_fdecl) : f_fdecl[i].stage = "type" /\ f_fdecl[i].cls = id

\* C25: a class that is not bound to C has the member swigdata exactly when
\* it extends no base; exactly one assignment operator is appended to its
\* children before they are traversed, and it is visited once; a struct
\* bound to C gets neither.
C25_HandleAndAssignment ==
  \A h \in 1..Len(c_hist) :
    c_hist[h].ret = "SWIG_OK" =>
      LET id == c_hist[h].id
          c == c_hist[h].c
          open == cur_class # <<>> /\ cur_class[1].id = id
      IN /\ (ClassLines(id, "swigdata") # {})
              = (~c.bindc /\ NonIgnoredBases(c) = <<>>)
         /\ open => cur_class[1].appended
                      = IF c.bindc THEN <<>> ELSE <<AssignmentOperator>>
         /\ open => AssignmentVisits(id) = {}
         /\ ClassClosed(id) =>
              Cardinality(AssignmentVisits(id)) = IF c.bindc THEN 0 ELSE 1
         /\ \A k \in AssignmentVisits(id) :
              \A j \in 1..Len(w_hist) : w_hist[j].cls = id => j <= k

\* a class that extends A was closed without a member swigdata after a
\* member function and then its one assignment operator were visited
C25_Witness ==
  \E h \in 1..Len(c_hist) :
    /\ ~c_hist[h].c.bindc /\ Len(NonIgnoredBases(c_hist[h].c)) = 1
    /\ ClassClosed(c_hist[h].id)
    /\ ClassLines(c_hist[h].id, "swigdata") = {}
    /\ ClassLines(c_hist[h].id, "type") # {}
    /\ \E k \in AssignmentVisits(c_hist[h].id) :
         /\ w_hist[k].ret = "SWIG_OK"
         /\ \E j \in 1..(k - 1) : w_hist[j].cls = c_hist[h].id

\* a class without bases has the member swigdata, and a struct bound to C
\* was closed with no swigdata and no assignment operator
C25_WitnessBoth ==
  \E h, g \in 1..Len(c_hist) :
    /\ ~c_hist[h].c.bindc /\ c_hist[h].c.bases = <<>>
    /\ ClassLines(c_hist[h].id, "swigdata") # {}
    /\ c_hist[g].c.bindc /\ c_hist[g].ret = "SWIG_OK" /\ ClassClosed(c_hist[g].id)
    /\ ClassLines(c_hist[g].id, "swigdata") = {}
    /\ AssignmentVisits(c_hist[g].id) = {}

(***************************************************************************)
(* Claims about is_fortran_intexpr (checked under SpecIntexpr).            *)
(***************************************************************************)
\* an optional '-' followed by the digit 0 alone or by digits that do not
\* start with 0
C26_Literal(s) ==
  LET body == IF s # <<>> /\ s[1] = 45 THEN Tail(s) ELSE s
  IN /\ body # <<>>
     /\ \A i \in 1..Len(body) : body[i] \in 48..57
     /\ (body[1] = 48 => Len(body) = 1)

\* C26: is_fortran_intexpr accepts exactly an optional leading '-' followed
\* by the digit 0 alone or by a non-empty run of digits that does not start
\* with 0; it rejects the empty string, a lone '-', a string with a
\* character that is no digit and a string of several digits starting
\* with 0.
C26_ExactlyLiterals ==
  ie_out # <<>> => (ie_out[1] = C26_Literal(ie_in))

\* the lone '-' is the one string on which the function and the rule
\* differ: it is accepted
C26_OnlyLoneMinus ==
  ie_out # <<>> =>
    /\ ie_out[1] # C26_Literal(ie_in) => ie_in = <<45>>
    /\ ie_in = <<45>> => ie_out[1]

\* '-19' was handed to the function and accepted
C26_Accepted ==
  /\ ie_out = <<TRUE>> /\ ie_in = <<45, 49, 57>>

(***************************************************************************)
(* Further claims about the registry (checked under SpecIdent).            *)
(***************************************************************************)
\* C27: after any sequence of add_fsymbol and make_unique_symname calls
\* every key of the scope is the lower-case form of a valid identifier
\* (not empty, no leading digit or underscore, at most 63 characters), and
\* every name make_unique_symname returned, with or without a numeric
\* suffix, is a valid identifier.
C27_KeysAndNamesValid ==
  /\ \A k \in DOMAIN symtab :
       is_valid_identifier(k) /\ k = Swig_string_lower(k)
  /\ \A h \in 1..Len(r_hist) :
       r_hist[h].op = "make_unique_symname" => is_valid_identifier(r_hist[h].ret)

\* add_fsymbol alone keeps the keys valid: a scope that only add_fsymbol
\* wrote holds lower-case forms of valid identifiers
C27_AddKeepsValid ==
  (\A h \in 1..Len(r_hist) : r_hist[h].op = "add_fsymbol") =>
    \A k \in DOMAIN symtab : is_valid_identifier(k) /\ k = Swig_string_lower(k)

\* make_unique_symname found a name of 63 characters taken and returned it
\* with the suffix 1: 64 characters, registered as a key
C27_LongSuffix ==
  \E h \in 1..Len(r_hist) :
    /\ r_hist[h].op = "make_unique_symname"
    /\ r_hist[h].name = Fill(97, 63)
    /\ r_hist[h].ret = Fill(97, 63) \o <<49>>
    /\ Len(r_hist[h].ret) = 64
    /\ r_hist[h].ret \in DOMAIN symtab

(***************************************************************************)
(* Further claims about the function wrapping pipeline (checked under      *)
(* Spec).                                                                  *)
(***************************************************************************)
\* the keys of the scope registered for the operation visited as number h
KeysOf(h) == {k \in DOMAIN symtab : symtab[k] = h}

\* C28: an operation that ends in SWIG_NOWRAP leaves the scope as it was
\* before the operation was visited: no name registered for it remains, so
\* its failure cannot make a later declaration be renamed or rejected.
C28_NoWrapLeavesNoName ==
  \A h \in 1..Len(w_hist) :
    w_hist[h].ret = "SWIG_NOWRAP" => KeysOf(h) = {}

\* an operation refused at the registration of its first name leaves no key
C28_RefusedAtFirstName ==
  \A h \in 1..Len(w_hist) :
    w_hist[h].stage = "imname" => KeysOf(h) = {}

\* foo failed in one of the stages after both its names were registered,
\* and a later Foo, which would be wrapped on its own, was rejected because
\* of the names foo left in the scope
C28_SiblingRejected ==
  \E h, j \in 1..Len(w_hist) :
    /\ h < j
    /\ w_hist[h].ret = "SWIG_NOWRAP"
    /\ w_hist[h].stage \in {"cfuncWrapper", "imfuncWrapper", "proxyfuncWrapper"}
    /\ Cardinality(KeysOf(h)) = 2
    /\ w_hist[j].stage = "imname" /\ w_hist[j].ret = "SWIG_NOWRAP"
    /\ Swig_string_lower(w_hist[j].names.imname) \in KeysOf(h)
    /\ functionWrapper(Setattr(<<>>, Swig_string_lower(Str_thinvec), 0),
                       w_hist[j].n, j, NoClass).ret = "SWIG_OK"

(***************************************************************************)
(* The constructor interface of a class.                                   *)
(***************************************************************************)
\* the visits of constructors of the class visited as number id, in order
ConstructorVisits(id) ==
  SelectSeq(w_hist, LAMBDA w : w.cls = id /\ w.n.kind = "constructor")

\* the procedure names of the visits in ws
ProcedureNames(ws) == [q \in 1..Len(ws) |-> ws[q].names.fname]

\* the constructor interfaces written for the class visited as number id
ConstructorGroups(id) ==
  {i \in 1..Len(f_fdecl) :
     f_fdecl[i].stage = "constructors" /\ f_fdecl[i].cls = id}

\* C29: the constructor interface written for a class that is not bound to
\* C lists, in the order of declaration, exactly the procedures of its
\* constructors that were wrapped, none of them null, and no list of
\* constructors is left over when the class has been closed.
C29_GroupExact ==
  /\ \A h \in 1..Len(c_hist) :
       (c_hist[h].ret = "SWIG_OK" /\ ~c_hist[h].c.bindc) =>
         \A i \in ConstructorGroups(c_hist[h].id) :
           /\ f_fdecl[i].procedures =
                ProcedureNames(SelectSeq(ConstructorVisits(c_hist[h].id),
                                         LAMBDA w : w.ret = "SWIG_OK"))
           /\ \A q \in 1..Len(f_fdecl[i].procedures) :
                f_fdecl[i].procedures[q] # NullStr
  /\ (cur_class = <<>> => d_constructors = <<>>)

\* the interface of a class that is not bound to C lists exactly the
\* constructors whose two names were registered, in the order of declaration
C29_GroupOfRegistered ==
  \A h \in 1..Len(c_hist) :
    (c_hist[h].ret = "SWIG_OK" /\ ~c_hist[h].c.bindc) =>
      \A i \in ConstructorGroups(c_hist[h].id) :
        f_fdecl[i].procedures =
          ProcedureNames(SelectSeq(ConstructorVisits(c_hist[h].id),
                                   LAMBDA w : w.stage \notin {"imname", "fname"}))

\* a class without constructors was closed and its empty list is still set
C29_ListLeftOver ==
  /\ cur_class = <<>> /\ d_constructors = << <<>> >>
  /\ \E h \in 1..Len(c_hist) :
       c_hist[h].ret = "SWIG_OK" /\ ~c_hist[h].c.bindc /\ ClassClosed(c_hist[h].id)

\* a constructor that ended in SWIG_NOWRAP is listed in the interface
C29_NoWrapListed ==
  \E h \in 1..Len(c_hist) : \E i \in ConstructorGroups(c_hist[h].id) :
  \E q \in 1..Len(ConstructorVisits(c_hist[h].id)) :
    LET w == ConstructorVisits(c_hist[h].id)[q]
    IN /\ ~c_hist[h].c.bindc /\ w.ret = "SWIG_NOWRAP"
       /\ \E x \in 1..Len(f_fdecl[i].procedures) :
            f_fdecl[i].procedures[x] = w.names.fname
       /\ \A y \in 1..Len(ConstructorVisits(c_hist[h].id)) :
            y # q => ConstructorVisits(c_hist[h].id)[y].names.fname # w.names.fname



(***************************************************************************)
(* The names of the parameters.                                            *)
(***************************************************************************)
\* the first call of makeParameterName for parameter q, 0 when there is none
FirstNaming(q) ==
  IF \E h \in 1..Len(p_hist) : p_hist[h].p = q
  THEN CHOOSE h \in 1..Len(p_hist) :
         p_hist[h].p = q /\ \A g \in 1..(h - 1) : p_hist[g].p # q
  ELSE 0

\* every call ended after at most one round for each name it could clash
\* with, the names assigned are pairwise distinct and none is a key of the
\* scope, and a later call returns the name assigned
ParmNamesFreshAndKept ==
  /\ \A h \in 1..Len(p_hist) :
       /\ p_hist[h].rounds <= Len(p_names) + Cardinality(DOMAIN symtab) + 1
       /\ p_hist[h].ret = p_hist[FirstNaming(p_hist[h].p)].ret
       /\ p_fname[p_hist[h].p] = <<p_hist[h].ret>>
  /\ \A q \in ParmsNamed :
       /\ p_fname[q][1] \notin DOMAIN symtab
       /\ \A q2 \in ParmsNamed : q2 # q => p_fname[q2][1] # p_fname[q][1]

\* C30: makeParameterName terminates; the names it assigns to the
\* parameters of one function, in the order of the list, are pairwise
\* distinct, each is a valid identifier and none is a key of the scope; a
\* name once assigned is returned unchanged by every later call.
C30_ParameterNames ==
  /\ ParmNamesFreshAndKept
  /\ \A q \in ParmsNamed : is_valid_identifier(p_fname[q][1])

\* the part the loop keeps
C30_FreshAndKept == ParmNamesFreshAndKept

\* a declared name of 63 characters clashed and got a digit appended: the
\* parameter is named with 64 characters
C30_TooLong ==
  \E q \in ParmsNamed :
    /\ Len(p_names[q]) = 63 /\ is_valid_identifier(p_names[q])
    /\ Len(p_fname[q][1]) = 64 /\ ~is_valid_identifier(p_fname[q][1])

\* three parameters were named, two of them after a clash, and one was
\* asked for again
C30_Renamed ==
  /\ Cardinality(ParmsNamed) = 3
  /\ Cardinality({h \in 1..Len(p_hist) : p_hist[h].rounds > 1}) >= 2
  /\ \E h \in 1..Len(p_hist) : p_hist[h].again


====
